---- MODULE Spec2Model ----
(***************************************************************************)
(* Contractor web scraper: the site crawler (handlers/SiteCrawler.py) and  *)
(* the field scrapers it drives (parsers/AddressScraper.py,                *)
(* parsers/PhoneScraper.py, parsers/EmailScraper.py over                   *)
(* parsers/TextSnippetScraper.py).                                         *)
(*                                                                         *)
(* Strings are sequences of tokens: a token stands for a run of characters *)
(* that the code's string operations never split ("tel:", "mailto", ":",   *)
(* "\n", a street line, ...).  Substring tests, str.replace, str.lower and *)
(* the address regular expression are computed on the token sequences.     *)
(***************************************************************************)
EXTENDS Integers, Sequences, FiniteSets, TLC

VARIABLES
    pc,          \* position of SiteCrawler.__call__ (or "call": a scraper called directly)
    pages,       \* SiteCrawler._pages, the frontier
    fields,      \* SiteCrawler._fields, the pending fields
    contractor,  \* the Contractor's address / phone / email
    page,        \* the url popped by the crawl loop
    content,     \* the document fetch_site returned for `page`
    launched,    \* the fields whose scraper coroutine the page visit gathered
    sc,          \* per field: the scraper call's position, return value, callback log
    fetches,     \* per url: how often the crawl loop handed it to fetch_site
    setCalls,    \* per field: how often its Contractor setter ran in this crawl
    extractor,   \* a SiteMapExtractor.extract call: position, homepage anchors, links, result
    csv,         \* a CSV round trip: the records written, the file, the records read back
    check,       \* a contractor-or-not decision: the decider, the responses, the result
    handler,     \* ResultsHandler: position of handle_results, calls made, duplicates logged
    contractors, \* ResultsHandler.contractors, the Contractor objects in insertion order
    store,       \* the CSV file contractors.csv
    routines,    \* per title of the batch: the crawl that handle_results gathered
    shared,      \* parsers.SiteCrawler's class attributes _pages, _fields; the set's iteration order
    crawlerModule, \* which ResultsHandler / SiteCrawler pair runs: "handlers" or "parsers"
    search,      \* a search result turned into a Contractor: position, result url, Contractor url
    svc,         \* the services lists: the class's list, each Contractor's own attribute, the last add_service
    scan,        \* a small-element scan: the document's elements, the batch, the completions, the callback's value
    parse,       \* _parse_results on a batch of search results: position, results, verdicts, Contractors handed on
    visit        \* the documents of a page visit: the objects, the fetched body as it was, each scraper's copy and link lookup

\* the variables of a crawl and of a scraper call
crawlVars == <<pc, pages, fields, contractor, page, content, launched, sc, fetches, setCalls>>
\* the variables of a site-map extraction
mapVars == <<extractor>>
\* the variables of a CSV round trip
csvVars == <<csv>>
\* the variables of a contractor-or-not decision
checkVars == <<check>>

\* the variables of a run of the ResultsHandler over batches of contractors
batchVars == <<handler, contractors, store, routines, shared, crawlerModule>>

\* the variables of the operations on one value
unitVars == <<search, svc, scan, parse, visit>>

vars == <<crawlVars, mapVars, csvVars, checkVars, batchVars, unitVars>>

\* what a crawl or a scraper call leaves alone
besidesCrawl == <<mapVars, csvVars, checkVars, batchVars, unitVars>>
\* what a site-map extraction leaves alone
besidesMap == <<crawlVars, csvVars, checkVars, batchVars, unitVars>>
\* what a CSV round trip leaves alone
besidesCsv == <<crawlVars, mapVars, checkVars, batchVars, unitVars>>
\* what a contractor-or-not decision leaves alone
besidesCheck == <<crawlVars, mapVars, csvVars, batchVars, unitVars>>
\* what a run of the ResultsHandler leaves alone
besidesBatch == <<crawlVars, mapVars, csvVars, checkVars, unitVars>>

(***************************************************************************)
(* Bounds of the model.                                                    *)
(***************************************************************************)
\* anchors (<a> elements) per document
MaxAnchors == 2
\* <p> elements of a small document (a large one has ChunkSize of them)
MaxPars == 1
\* anchors per document of a crawled page
MaxCrawlAnchors == 1
\* anchors of a homepage given to the site-map extractor
MaxLinks == 2
\* handle_results calls of one run
MaxCalls == 2
\* contractors of one batch
MaxBatch == 2
\* urls the site-map discovery adds to the frontier of a crawl of a batch
MaxDiscovered == 0

(***************************************************************************)
(* Program constants.                                                      *)
(***************************************************************************)
\* TextSnippetScraper._chunk_size
ChunkSize == 100
\* max_retries in TextSnippetScraper._process
MaxRetries == 15

Fields == {"address", "email", "phone"}

\* Python's None as a field value / _process result
PyNone == <<"<None>">>

\* no site-map extraction is under way
IdleExtractor == [pc |-> "off", anchors |-> <<>>, links |-> <<>>, ret |-> {}]

MapIdle == extractor = IdleExtractor

\* no CSV file is written or read
IdleCsv == [pc |-> "off", contractors |-> <<>>, file |-> <<>>, loaded |-> <<>>]

CsvIdle == csv = IdleCsv

\* no search result is being classified
IdleCheck == [pc |-> "off", decider |-> "none", isContractor |-> <<>>,
              alignment |-> <<>>, ret |-> "none"]

CheckIdle == check = IdleCheck

\* no ResultsHandler runs
BatchIdle ==
    /\ handler = [pc |-> "off", calls |-> 0, dups |-> 0, crawled |-> <<>>]
    /\ contractors = <<>>
    /\ store = [exists |-> FALSE, rows |-> <<>>]
    /\ routines = <<>>
    /\ shared = [pages |-> {}, fields |-> {}, order |-> <<>>]
    /\ crawlerModule = "none"

\* the components a crawl (or a scraper call) does not involve are at rest
\* no search result is being turned into a Contractor
IdleSearch == [pc |-> "off", url |-> <<>>, contractorUrl |-> <<>>]
SearchIdle == search = IdleSearch

NoCall == [who |-> <<>>, service |-> ""]
IdleSvc == [pc |-> "off", cls |-> <<>>, own |-> <<>>, last |-> NoCall]
SvcIdle == svc = IdleSvc

IdleScan == [pc |-> "off", doc |-> <<>>, chunk |-> <<>>, completed |-> <<>>, value |-> <<>>]
ScanIdle == scan = IdleScan

IdleParse == [pc |-> "off", results |-> <<>>, kept |-> {}, verdict |-> <<>>, passed |-> <<>>]
ParseIdle == parse = IdleParse

IdleVisit == [pc |-> "off", heap |-> <<>>, fetched |-> <<>>, work |-> <<>>, lookup |-> <<>>]
VisitIdle == visit = IdleVisit

UnitIdle == SearchIdle /\ SvcIdle /\ ScanIdle /\ ParseIdle /\ VisitIdle

CrawlOnly == MapIdle /\ CsvIdle /\ CheckIdle /\ BatchIdle /\ UnitIdle

(***************************************************************************)
(* Strings.                                                                *)
(***************************************************************************)
\* str.lower() on one token
LowerTok(t) ==
    CASE t = "No Address" -> "no address"
      [] t = "No address" -> "no address"
      [] t = "No Phone Number" -> "no phone number"
      [] t = "No Email Address" -> "no email address"
      [] t = "Contractor" -> "contractor"
      [] t = "Not Contractor" -> "not contractor"
      [] t = "Same" -> "same"
      [] t = "Not similar" -> "not similar"
      [] OTHER -> t

\* str.lower()
Lower(s) == [i \in 1..Len(s) |-> LowerTok(s[i])]

\* `tok in s` for a text that is one token
Contains(s, tok) == \E i \in 1..Len(s) : s[i] = tok

\* whether pattern pat occurs in s at position i
MatchAt(s, pat, i) ==
    /\ i + Len(pat) - 1 <= Len(s)
    /\ \A j \in 1..Len(pat) : s[i + j - 1] = pat[j]

RECURSIVE ReplaceFrom(_, _, _, _)
ReplaceFrom(s, pat, new, i) ==
    IF i > Len(s) THEN <<>>
    ELSE IF MatchAt(s, pat, i) THEN new \o ReplaceFrom(s, pat, new, i + Len(pat))
    ELSE <<s[i]>> \o ReplaceFrom(s, pat, new, i + 1)

\* s.replace(pat, new): every non-overlapping occurrence, left to right
Replace(s, pat, new) == ReplaceFrom(s, pat, new, 1)

\* tokens whose last character is in [A-Za-z0-9]
AlnumEnd == {"1 Main St", "Springfield", "No address", "No Address", "no address", " found"}

\* re.sub(r'([A-Za-z0-9])\n', r'\1, ', address)
SubAlnumNewline(s) ==
    [i \in 1..Len(s) |->
        IF s[i] = "\n" /\ i > 1 /\ s[i - 1] \in AlnumEnd THEN ", " ELSE s[i]]

\* AddressScraper._format_address
FormatAddress(address) ==
    Replace(Replace(SubAlnumNewline(address), <<",", "\n">>, <<", ">>),
            <<".", "\n">>, <<", ">>)

(***************************************************************************)
(* Documents: the <body> fetch_site returns.  A document has its anchors    *)
(* in document order (each with or without an href), nP <p> elements, and  *)
(* possibly a <footer> and a <header>.                                     *)
(***************************************************************************)
TelHref        == <<"tel:", "5551234567">>
MailtoInfo     == <<"mailto", ":", "info@x.com">>
MailtoSales    == <<"mailto", ":", "sales@x.com">>

Hrefs == {TelHref, MailtoInfo, MailtoSales}

Anchors == {[hasHref |-> TRUE, href |-> h] : h \in Hrefs}
           \cup {[hasHref |-> FALSE, href |-> <<>>]}

AnchorSeqs == UNION {[1..n -> Anchors] : n \in 0..MaxAnchors}

ParCounts == (0..MaxPars) \cup {ChunkSize, 2 * ChunkSize}

Docs == [footer : BOOLEAN, header : BOOLEAN, anchors : AnchorSeqs, nP : ParCounts]

(***************************************************************************)
(* The classification oracle (a langchain chain).  One classification of a *)
(* snippet is a script: rl rate-limit errors, then a final response, which *)
(* is a text, an InvalidRequestError (input too large) or an               *)
(* OutputParserException.                                                  *)
(***************************************************************************)
AddressTexts == { <<"1 Main St", "\n", "Springfield">>,
                  <<"Unit (5)", "\n", "Springfield">>,
                  <<"no address">>,
                  <<"No Address">>,
                  <<"No address", " found", ".">> }

PhoneTexts == { <<"(555) 123-4567">>,
                <<"no phone number">>,
                <<"No Phone Number", " found">> }

EmailTexts == { <<"info@x.com">>,
                <<"no email address">>,
                <<"No Email Address", " found">> }

Texts(f) == CASE f = "address" -> AddressTexts
              [] f = "phone" -> PhoneTexts
              [] f = "email" -> EmailTexts

Finals(f) == {[t |-> "str", s |-> x] : x \in Texts(f)}
             \cup {[t |-> "toolarge", s |-> <<>>], [t |-> "parseerr", s |-> <<>>]}

\* how many rate-limit errors precede the final response
RateLimits == {0, MaxRetries - 1, MaxRetries}

Scripts(f) == [rl : RateLimits, fin : Finals(f)]

\* PhoneScraper._failure_text, EmailScraper._failure_text
FailureText(f) == IF f = "phone" THEN "no phone number" ELSE "no email address"

(***************************************************************************)
(* TextSnippetScraper._process: the retry loop.  `calls` counts the         *)
(* invocations of the chain.                                               *)
(***************************************************************************)
RECURSIVE ProcessLoop(_, _, _, _)
ProcessLoop(f, script, retries, calls) ==
    IF retries >= MaxRetries
    THEN [res |-> PyNone, calls |-> calls, exc |-> FALSE]
    ELSE IF calls < script.rl
    THEN \* RateLimitError: retries += 1, sleep, next iteration
         ProcessLoop(f, script, retries + 1, calls + 1)
    ELSE IF script.fin.t = "str" /\ ~Contains(Lower(script.fin.s), FailureText(f))
    THEN [res |-> script.fin.s, calls |-> calls + 1, exc |-> FALSE]
    ELSE \* failure text, OutputParserException, InvalidRequestError: break
         [res |-> PyNone, calls |-> calls + 1, exc |-> FALSE]

\* (mutant: a rate-limit error ends the classification at once)
TextSnippetProcessNoRetry(f, script) ==
    IF script.rl > 0 THEN [res |-> PyNone, calls |-> 1, exc |-> FALSE]
    ELSE ProcessLoop(f, script, 0, 0)

TextSnippetProcess(f, script) == ProcessLoop(f, script, 0, 0)

\* AddressScraper._process: one invocation, only InvalidRequestError is caught
AddressProcess(script) ==
    IF script.rl > 0 \/ script.fin.t = "parseerr"
    THEN [res |-> PyNone, calls |-> 1, exc |-> TRUE]
    ELSE IF script.fin.t = "str" /\ Lower(script.fin.s) # <<"no address">>
    THEN [res |-> FormatAddress(script.fin.s), calls |-> 1, exc |-> FALSE]
    ELSE [res |-> PyNone, calls |-> 1, exc |-> FALSE]

\* (mutant: an input-too-large error is not caught)
ProcessTooLargeRaises(f, script) ==
    IF script.rl = 0 /\ script.fin.t = "toolarge"
    THEN [res |-> PyNone, calls |-> 1, exc |-> TRUE]
    ELSE IF f = "address" THEN AddressProcess(script) ELSE TextSnippetProcess(f, script)

Process(f, script) ==
    IF f = "address" THEN AddressProcess(script) ELSE TextSnippetProcess(f, script)

(***************************************************************************)
(* The snippets a scraper classifies, in order.                            *)
(***************************************************************************)
\* candidate elements: find_all('p') then find_all('a') (the documents of
\* the model hold no span / strong / li / b / u / font element)
NumElems(doc) == doc.nP + Len(doc.anchors)

\* TextSnippetScraper._snippet_chunks: the elements are appended one by one
\* and a chunk is yielded each time it reaches ChunkSize elements; nothing
\* is yielded after the loop.  `left` elements are still to be appended.
RECURSIVE ChunkLoop(_)
ChunkLoop(left) ==
    IF left >= ChunkSize
    THEN <<[k |-> "chunk", n |-> ChunkSize]>> \o ChunkLoop(left - ChunkSize)
    ELSE <<>>

SnippetChunks(doc) == ChunkLoop(NumElems(doc))

\* for i in ('footer', 'header'): section = _content.find(i)
Sections(doc) ==
    (IF doc.footer THEN <<[k |-> "footer", n |-> 1]>> ELSE <<>>)
    \o (IF doc.header THEN <<[k |-> "header", n |-> 1]>> ELSE <<>>)

\* first, last = str(_content)[:chunk_size], str(_content)[-chunk_size:]
FlatChunks == <<[k |-> "first", n |-> 1], [k |-> "last", n |-> 1]>>

\* TextSnippetScraper.__call__
TextSnippetSteps(doc) == Sections(doc) \o SnippetChunks(doc) \o FlatChunks

\* AddressScraper.__call__: the elements are classified one after another
AddressSteps(doc) ==
    Sections(doc)
    \o (IF NumElems(doc) > 0 THEN <<[k |-> "elems", n |-> NumElems(doc)]>> ELSE <<>>)
    \o FlatChunks

Steps(f, doc) == IF f = "address" THEN AddressSteps(doc) ELSE TextSnippetSteps(doc)

(***************************************************************************)
(* One scraper call.  Its state: idx, the step it is at (0: the link       *)
(* shortcut of the phone and email scrapers); ret, what the call returned  *)
(* ("pending" until it has, "raise" for an exception); calls, the chain    *)
(* invocations so far; cb, the values passed to the callback so far; last, *)
(* the step classified last and the oracle's script for it.                *)
(***************************************************************************)
NoLast == [k |-> "none", script |-> [rl |-> 0, fin |-> [t |-> "none", s |-> <<>>]]]

IdleSc == [idx |-> 0, ret |-> "idle", calls |-> 0, cb |-> <<>>, last |-> NoLast]

\* AddressScraper.__call__ has no shortcut
InitSc(f) == [idx |-> IF f = "address" THEN 1 ELSE 0,
              ret |-> "pending", calls |-> 0, cb |-> <<>>, last |-> NoLast]

Min(S) == CHOOSE x \in S : \A y \in S : x <= y

\* (mutant: the scan looks for a scheme no link has)
TelAnchorsNone(doc) ==
    {i \in 1..Len(doc.anchors) :
        doc.anchors[i].hasHref /\ Contains(doc.anchors[i].href, "phone:")}

\* PhoneScraper.__call__: 'href' in tag.attrs and 'tel:' in tag.attrs['href']
TelAnchors(doc) ==
    {i \in 1..Len(doc.anchors) :
        doc.anchors[i].hasHref /\ Contains(doc.anchors[i].href, "tel:")}

\* EmailScraper.__call__: 'href' in tag.attrs and 'mailto' in tag.attrs['href']
MailtoAnchors(doc) ==
    {i \in 1..Len(doc.anchors) :
        doc.anchors[i].hasHref /\ Contains(doc.anchors[i].href, "mailto")}

ShortcutAnchors(f, doc) == IF f = "phone" THEN TelAnchors(doc) ELSE MailtoAnchors(doc)

\* (mutant: the link target is used as it is)
ShortcutValueRaw(f, href) == href

\* tag.attrs['href'].replace('tel:', '') / .replace('mailto:', '')
ShortcutValue(f, href) ==
    IF f = "phone" THEN Replace(href, <<"tel:">>, <<>>)
    ELSE Replace(href, <<"mailto", ":">>, <<>>)

\* what a call returns after its callback ran: TextSnippetScraper returns
\* True; AddressScraper returns callback(address), the setter's None
FoundRet(f) == IF f = "address" THEN "None" ELSE "True"

\* what a call returns when nothing was found: False; AddressScraper's bare return
NotFoundRet(f) == IF f = "address" THEN "None" ELSE "False"

\* the first anchor with a tel: / mailto link decides; otherwise super().__call__
ShortcutStep(f, doc, s) ==
    IF ShortcutAnchors(f, doc) # {}
    THEN {[s EXCEPT !.ret = "True",
                    !.cb = Append(@, ShortcutValue(f,
                                doc.anchors[Min(ShortcutAnchors(f, doc))].href))]}
    ELSE {[s EXCEPT !.idx = 1]}

\* (mutant: the call goes on to its next step after a value was found)
AfterProcessGoesOn(f, s, k, x, extraCalls) ==
    LET r == Process(f, x)
        t == [s EXCEPT !.calls = @ + r.calls + extraCalls,
                       !.last = [k |-> k, script |-> x], !.idx = @ + 1]
    IN  IF r.exc THEN [t EXCEPT !.ret = "raise"]
        ELSE IF r.res # PyNone THEN [t EXCEPT !.cb = Append(@, r.res)]
        ELSE t

\* snippet = await self._process(...) under script x, which made extraCalls
\* invocations besides; if snippet is not None: callback(snippet); return
AfterProcess(f, s, k, x, extraCalls) ==
    LET r == Process(f, x)
        t == [s EXCEPT !.calls = @ + r.calls + extraCalls,
                       !.last = [k |-> k, script |-> x]]
    IN  IF r.exc THEN [t EXCEPT !.ret = "raise"]
        ELSE IF r.res # PyNone
        THEN [t EXCEPT !.ret = FoundRet(f), !.cb = Append(@, r.res)]
        ELSE [t EXCEPT !.idx = @ + 1]

\* a header / footer section, or a flat first / last chunk
SingleStep(f, s, k) == {AfterProcess(f, s, k, x, 0) : x \in Scripts(f)}

\* TextSnippetScraper._process_chunks: the whole chunk is classified, then the
\* first result that is not None goes to the callback.  The script x is that
\* of the first element with an answer (or of any element when none has one);
\* the other elements take one invocation each.
ChunkStep(f, s, n) == {AfterProcess(f, s, "chunk", x, n - 1) : x \in Scripts(f)}

\* positions of the first element of a sequential scan that ends the scan
HitChoices(n) == {k \in 1..n : k <= 2 \/ k = n}

\* AddressScraper.__call__, the p / span / a loop: element k is the first one
\* whose classification returns an address or raises; k - 1 elements before
\* it gave nothing, with one invocation each
ElemsStep(f, s, n) ==
    {[s EXCEPT !.idx = @ + 1, !.calls = @ + n, !.last = NoLast]}
    \cup {AfterProcess(f, s, "elems", x, k - 1) :
            k \in HitChoices(n),
            x \in {y \in Scripts(f) : Process(f, y).exc \/ Process(f, y).res # PyNone}}

\* past the last step: return False (AddressScraper: return)
EndStep(f, s) == {[s EXCEPT !.ret = NotFoundRet(f)]}

StepKind(f, doc, s) ==
    IF s.idx = 0 THEN "shortcut"
    ELSE IF s.idx > Len(Steps(f, doc)) THEN "end"
    ELSE Steps(f, doc)[s.idx].k

\* the states one step of the call can lead to
StepResults(f, doc, s) ==
    LET k == StepKind(f, doc, s) IN
    CASE k = "shortcut" -> ShortcutStep(f, doc, s)
      [] k = "end" -> EndStep(f, s)
      [] k = "chunk" -> ChunkStep(f, s, Steps(f, doc)[s.idx].n)
      [] k = "elems" -> ElemsStep(f, s, Steps(f, doc)[s.idx].n)
      [] OTHER -> SingleStep(f, s, k)

\* what the caller of a scraper observes of the call: where it is, what it
\* returned and what it passed to its callback
Observed(s) == [s EXCEPT !.calls = 0, !.last = NoLast]

\* the states in which the call can end, as its caller observes them
RECURSIVE RunToEnd(_, _, _)
RunToEnd(f, doc, s) ==
    IF s.ret # "pending" THEN {Observed(s)}
    ELSE UNION {RunToEnd(f, doc, t) : t \in {Observed(u) : u \in StepResults(f, doc, s)}}

\* Contractor.set_address / set_phone / set_email, paired with the field by
\* _FieldType.get_callback
SetField(c, f, v) == [c EXCEPT ![f] = v]

\* (mutant: a call that found nothing unsets the field)
AfterCallbacksClearing(c, f, s, t) ==
    IF Len(t.cb) > Len(s.cb) THEN SetField(c, f, t.cb[Len(t.cb)]) ELSE SetField(c, f, PyNone)

\* the Contractor after the callbacks the call made from state s to state t
AfterCallbacks(c, f, s, t) ==
    IF Len(t.cb) > Len(s.cb) THEN SetField(c, f, t.cb[Len(t.cb)]) ELSE c

(***************************************************************************)
(* The crawl of one contractor: SiteCrawler in handlers/SiteCrawler.py.    *)
(***************************************************************************)
Homepage == "home"
Urls == {"home", "about", "contact"}
NoUrl == "none"

EmptyDoc == [footer |-> FALSE, header |-> FALSE, anchors |-> <<>>, nP |-> 0]

\* the documents a crawled page can hold: up to MaxCrawlAnchors anchors, each
\* a tel: or a mailto: link, with or without a footer and a header
CrawlAnchorSeqs ==
    UNION {[1..n -> {[hasHref |-> TRUE, href |-> h] : h \in {TelHref, MailtoInfo}}] :
            n \in 0..MaxCrawlAnchors}

CrawlDocs == {d \in Docs : d.anchors \in CrawlAnchorSeqs /\ d.nP = 0 /\ d.footer = d.header}

\* a new Contractor: address, phone and email are None
NewContractor == [f \in Fields |-> PyNone]

\* default_fields()
DefaultFields == {"address", "email", "phone"}

\* what fetch_site(url) can do: return the <body>; raise a ValueError (the
\* url is invalid, the body cannot be decoded); raise another exception (the
\* connection fails, the retries are exhausted, or the response has no
\* <body>, so that body.find_all raises AttributeError)
FetchOutcomes ==
    {[t |-> "ok", doc |-> d] : d \in CrawlDocs}
    \cup {[t |-> "valueerror", doc |-> EmptyDoc], [t |-> "error", doc |-> EmptyDoc]}

\* what the site-map extractor can do: return a SiteMap whose about and
\* contact may be missing, raise a ValueError, or raise what fetch_site raised
SiteMapOutcomes ==
    {[t |-> "ok", about |-> a, contact |-> c] :
        a \in Urls \cup {NoUrl}, c \in Urls \cup {NoUrl}}
    \cup {[t |-> "valueerror", about |-> NoUrl, contact |-> NoUrl],
          [t |-> "error", about |-> NoUrl, contact |-> NoUrl]}

\* SiteCrawler.__init__
Init ==
    /\ pc = "sitemap"
    /\ pages = {Homepage}
    /\ fields = DefaultFields
    /\ contractor = NewContractor
    /\ page = NoUrl
    /\ content = EmptyDoc
    /\ launched = {}
    /\ sc = [f \in Fields |-> IdleSc]
    /\ fetches = [u \in Urls |-> 0]
    /\ setCalls = [f \in Fields |-> 0]
    /\ CrawlOnly

\* for i in ('about', 'contact'): if attr: self._pages.add(str(attr))
WithSitemap(ps, sitemap) ==
    ps \cup ({sitemap.about, sitemap.contact} \ {NoUrl})

\* SiteCrawler._add_sitemap, the extractor returned
SitemapAdded ==
    /\ pc = "sitemap"
    /\ \E o \in SiteMapOutcomes :
        /\ o.t = "ok"
        /\ pages' = WithSitemap(pages, o)
    /\ pc' = "loop"
    /\ UNCHANGED <<fields, contractor, page, content, launched, sc, fetches, setCalls>>
    /\ UNCHANGED besidesCrawl

\* SiteCrawler._add_sitemap, except ValueError: logged
SitemapValueError ==
    /\ pc = "sitemap"
    /\ \E o \in SiteMapOutcomes : o.t = "valueerror"
    /\ pc' = "loop"
    /\ UNCHANGED <<pages, fields, contractor, page, content, launched, sc, fetches, setCalls>>
    /\ UNCHANGED besidesCrawl

\* SiteCrawler._add_sitemap, another exception leaves __call__
SitemapFailed ==
    /\ pc = "sitemap"
    /\ \E o \in SiteMapOutcomes : o.t = "error"
    /\ pc' = "raised"
    /\ UNCHANGED <<pages, fields, contractor, page, content, launched, sc, fetches, setCalls>>
    /\ UNCHANGED besidesCrawl

\* (mutant: the loop looks at the pending fields only)
LoopGuardFieldsOnly(fs, ps) == fs # {}

\* while self._fields and self._pages
LoopGuard(fs, ps) == fs # {} /\ ps # {}

\* (mutant: the url is read but stays in the set)
PopKeeps(ps, p) == ps

\* self._pages.pop(): the set without the popped url
Pop(ps, p) == ps \ {p}

\* page = self._pages.pop(); await self._scrape_page(page) begins fetch_site
\* (set.pop() on an empty set raises KeyError, which leaves __call__)
LoopPop ==
    /\ pc = "loop"
    /\ LoopGuard(fields, pages)
    /\ IF pages = {}
       THEN /\ pc' = "raised"
            /\ UNCHANGED <<pages, page, fetches>>
       ELSE /\ \E p \in pages :
                /\ page' = p
                /\ pages' = Pop(pages, p)
                /\ fetches' = [fetches EXCEPT ![p] = @ + 1]
            /\ pc' = "fetch"
    /\ UNCHANGED <<fields, contractor, content, launched, sc, setCalls>>
    /\ UNCHANGED besidesCrawl

\* the while condition is false: __call__ returns
LoopExit ==
    /\ pc = "loop"
    /\ ~LoopGuard(fields, pages)
    /\ pc' = "done"
    /\ UNCHANGED <<pages, fields, contractor, page, content, launched, sc, fetches, setCalls>>
    /\ UNCHANGED besidesCrawl

\* _scrape_page: fetch_site returned; the scrapers of the pending fields are
\* created and gathered
ScrapePageFetched ==
    /\ pc = "fetch"
    /\ \E o \in FetchOutcomes :
        /\ o.t = "ok"
        /\ content' = o.doc
    /\ launched' = fields
    /\ sc' = [f \in Fields |-> IF f \in fields THEN InitSc(f) ELSE IdleSc]
    /\ pc' = "scrape"
    /\ UNCHANGED <<pages, fields, contractor, page, fetches, setCalls>>
    /\ UNCHANGED besidesCrawl

\* (mutant: after a page that could not be fetched the site map is asked for again)
ScrapePageSkippedRediscover ==
    /\ pc = "fetch"
    /\ \E o \in FetchOutcomes : o.t = "valueerror"
    /\ page' = NoUrl
    /\ pc' = "sitemap"
    /\ UNCHANGED <<pages, fields, contractor, content, launched, sc, fetches, setCalls>>
    /\ UNCHANGED besidesCrawl

\* _scrape_page: except ValueError: logged, return
ScrapePageSkipped ==
    /\ pc = "fetch"
    /\ \E o \in FetchOutcomes : o.t = "valueerror"
    /\ page' = NoUrl
    /\ pc' = "loop"
    /\ UNCHANGED <<pages, fields, contractor, content, launched, sc, fetches, setCalls>>
    /\ UNCHANGED besidesCrawl

\* _scrape_page: fetch_site raised something that is no ValueError; it
\* leaves _scrape_page and __call__
ScrapePageFailed ==
    /\ pc = "fetch"
    /\ \E o \in FetchOutcomes : o.t = "error"
    /\ pc' = "raised"
    /\ UNCHANGED <<pages, fields, contractor, page, content, launched, sc, fetches, setCalls>>
    /\ UNCHANGED besidesCrawl

\* results = await asyncio.gather(*coroutines): a finished coroutine leaves
\* its return value (or its exception); cb keeps what it passed to its callback
GatherResult(t) == [IdleSc EXCEPT !.ret = t.ret, !.cb = t.cb]

\* one gathered scraper coroutine runs to its end.  An exception leaves
\* asyncio.gather, _scrape_page and __call__ at once; the other coroutines
\* of the gather are not cancelled by it.
RunScraper(f) ==
    /\ pc \in {"scrape", "raised"}
    /\ f \in launched
    /\ sc[f].ret = "pending"
    /\ \E t \in RunToEnd(f, content, sc[f]) :
        /\ sc' = [sc EXCEPT ![f] = GatherResult(t)]
        /\ contractor' = AfterCallbacks(contractor, f, sc[f], t)
        /\ setCalls' = [setCalls EXCEPT ![f] = @ + Len(t.cb) - Len(sc[f].cb)]
        /\ pc' = IF t.ret = "raise" THEN "raised" ELSE pc
    /\ UNCHANGED <<pages, fields, page, content, launched, fetches>>
    /\ UNCHANGED besidesCrawl

\* for result, field in zip(results, self._fields): if result: _removal.add(field)
Removal(results, fs) == {f \in fs : results[f].ret = "True"}

\* (mutant: the crawl goes back to its loop when one scraper has returned)
ReconcileEarly ==
    /\ pc = "scrape"
    /\ \E f \in launched : sc[f].ret \in {"True", "False", "None"}
    /\ fields' = fields \ {f \in fields : sc[f].ret = "True"}
    /\ page' = NoUrl
    /\ pc' = "loop"
    /\ UNCHANGED <<pages, contractor, content, launched, sc, fetches, setCalls>>
    /\ UNCHANGED besidesCrawl

\* _scrape_page after the gather: the found fields leave self._fields
Reconcile ==
    /\ pc = "scrape"
    /\ \A f \in launched : sc[f].ret \in {"True", "False", "None"}
    /\ fields' = fields \ Removal(sc, fields)
    /\ page' = NoUrl
    /\ content' = EmptyDoc
    /\ launched' = {}
    /\ sc' = [f \in Fields |-> IdleSc]
    /\ pc' = "loop"
    /\ UNCHANGED <<pages, contractor, fetches, setCalls>>
    /\ UNCHANGED besidesCrawl

Next ==
    \/ SitemapAdded
    \/ SitemapValueError
    \/ SitemapFailed
    \/ LoopPop
    \/ LoopExit
    \/ ScrapePageFetched
    \/ ScrapePageSkipped
    \/ ScrapePageFailed
    \/ \E f \in Fields : RunScraper(f)
    \/ Reconcile

Spec == Init /\ [][Next]_vars

(***************************************************************************)
(* One scraper called on a fetched document, step by step, as              *)
(* ContractorHandler._scrape calls it: scraper(content, url, setter).      *)
(***************************************************************************)
InitScraper ==
    /\ pc = "call"
    /\ pages = {}
    /\ fields = {}
    /\ contractor = NewContractor
    /\ page = Homepage
    /\ content \in Docs
    /\ \E f \in Fields :
        /\ launched = {f}
        /\ sc = [g \in Fields |-> IF g = f THEN InitSc(g) ELSE IdleSc]
    /\ fetches = [u \in Urls |-> 0]
    /\ setCalls = [f \in Fields |-> 0]
    /\ CrawlOnly

\* one step of the call of the scraper of field f, when it is at a step of kind k
ScraperStep(f, k) ==
    /\ pc = "call"
    /\ f \in launched
    /\ sc[f].ret = "pending"
    /\ StepKind(f, content, sc[f]) = k
    /\ \E t \in StepResults(f, content, sc[f]) :
        /\ sc' = [sc EXCEPT ![f] = t]
        /\ contractor' = AfterCallbacks(contractor, f, sc[f], t)
        /\ setCalls' = [setCalls EXCEPT ![f] = @ + Len(t.cb) - Len(sc[f].cb)]
    /\ UNCHANGED <<pc, pages, fields, page, content, launched, fetches>>
    /\ UNCHANGED besidesCrawl

\* PhoneScraper.__call__ / EmailScraper.__call__: the anchor scan
Shortcut(f) == ScraperStep(f, "shortcut")
\* the footer, then the header
ClassifyFooter(f) == ScraperStep(f, "footer")
ClassifyHeader(f) == ScraperStep(f, "header")
\* TextSnippetScraper: one chunk of small elements
ClassifyChunk(f) == ScraperStep(f, "chunk")
\* AddressScraper: the p / span / a elements
ScanElements(f) == ScraperStep(f, "elems")
\* the first and the last 5000 characters
ClassifyFirst(f) == ScraperStep(f, "first")
ClassifyLast(f) == ScraperStep(f, "last")
\* nothing found
ReturnNotFound(f) == ScraperStep(f, "end")

NextScraper ==
    \E f \in Fields :
        \/ Shortcut(f)
        \/ ClassifyFooter(f)
        \/ ClassifyHeader(f)
        \/ ClassifyChunk(f)
        \/ ScanElements(f)
        \/ ClassifyFirst(f)
        \/ ClassifyLast(f)
        \/ ReturnNotFound(f)

SpecScraper == InitScraper /\ [][NextScraper]_vars

(***************************************************************************)
(* Site-map extraction: SiteMapExtractor.extract in                         *)
(* parsers/SiteMapExtrator.py, on a homepage of the host SiteHost.  An     *)
(* href is a sequence of tokens: scheme, host, path for an absolute link,  *)
(* the path alone for a relative one.                                      *)
(***************************************************************************)
\* no crawl and no scraper call is under way
CrawlIdle ==
    /\ pc = "off"
    /\ pages = {}
    /\ fields = {}
    /\ contractor = NewContractor
    /\ page = NoUrl
    /\ content = EmptyDoc
    /\ launched = {}
    /\ sc = [f \in Fields |-> IdleSc]
    /\ fetches = [u \in Urls |-> 0]
    /\ setCalls = [f \in Fields |-> 0]

SiteHost == "acme.com"

InternalHref == <<"https://", "acme.com", "/about">>
RelativeHref == <<"/contact">>
ExternalHref == <<"https://", "facebook.com", "/acme">>

\* the <a> elements of a homepage: with an internal, a relative or an
\* external link target, or without href
SiteAnchors ==
    {[hasHref |-> TRUE, href |-> h] : h \in {InternalHref, RelativeHref, ExternalHref}}
    \cup {[hasHref |-> FALSE, href |-> <<>>]}

HomeAnchorSeqs == UNION {[1..n -> SiteAnchors] : n \in 0..MaxLinks}

\* href = i.attrs.get('href'); i.attrs = {'href': href}
LinkHref(a) == IF a.hasHref THEN a.href ELSE PyNone

\* links = [link for link in content.find_all('a')], each reduced to its href
ExtractLinks(anchors) == [i \in 1..Len(anchors) |-> LinkHref(anchors[i])]

\* an absolute link to another host
IsExternal(h) == Len(h) >= 2 /\ h[1] = "https://" /\ h[2] # SiteHost

\* what the chain can answer for the links it was given: a list of urls
\* among them (CommaSeparatedListOutputParser)
ChainAnswers(links) == SUBSET ({links[i] : i \in 1..Len(links)} \ {PyNone})

InitExtract ==
    /\ UnitIdle
    /\ CrawlIdle
    /\ BatchIdle
    /\ CsvIdle
    /\ CheckIdle
    /\ \E as \in HomeAnchorSeqs :
        extractor = [pc |-> "fetch", anchors |-> as, links |-> <<>>, ret |-> {}]

\* content = await fetch_site(url) returned; the links are collected and
\* handed to the chain: cls._chain.ainvoke({'links': links, 'url': url})
ExtractInvoke ==
    /\ extractor.pc = "fetch"
    /\ extractor' = [extractor EXCEPT !.pc = "invoke",
                                      !.links = ExtractLinks(extractor.anchors)]
    /\ UNCHANGED besidesMap

\* fetch_site raised: extract has no handler
ExtractFetchFailed ==
    /\ extractor.pc = "fetch"
    /\ extractor' = [extractor EXCEPT !.pc = "raised"]
    /\ UNCHANGED besidesMap

\* the chain answered: return extracted
ExtractReturn ==
    /\ extractor.pc = "invoke"
    /\ \E r \in ChainAnswers(extractor.links) :
        extractor' = [extractor EXCEPT !.pc = "returned", !.ret = r]
    /\ UNCHANGED besidesMap

\* the chain raised (rate limit, unparsable output)
ExtractChainFailed ==
    /\ extractor.pc = "invoke"
    /\ extractor' = [extractor EXCEPT !.pc = "raised"]
    /\ UNCHANGED besidesMap

NextExtract ==
    \/ ExtractInvoke
    \/ ExtractFetchFailed
    \/ ExtractReturn
    \/ ExtractChainFailed

SpecSiteMap == InitExtract /\ [][NextExtract]_vars


(***************************************************************************)
(* The CSV store: ResultsHandler._write / _read (ResultsHandler.py) over   *)
(* Contractor.to_row / from_row (typedefs/contractor.py).  A CSV field is  *)
(* the text csv.writer puts into the file for a value.                     *)
(***************************************************************************)
Titles == { <<"Acme">>, <<"Bolt", ", ", "Inc">> }

Descriptions == { <<"Builders">>, <<"Roofing", ", ", "siding">> }

\* strip_url leaves scheme and host
UrlOf(title) == IF title = <<"Acme">> THEN <<"https://", "acme.com">>
                ELSE IF title = <<"Cord">> THEN <<"https://", "cord.com">>
                ELSE IF title = <<"Dune">> THEN <<"https://", "dune.com">>
                ELSE <<"https://", "bolt.com">>

\* Contractor.fields
FieldNames == {"title", "description", "url", "phone", "email", "address"}

\* the Contractor objects a handler can hold for a title: phone, email and
\* address are None or a value a scraper found
ContractorsOf(title) ==
    [title : {title}, description : Descriptions, url : {UrlOf(title)},
     phone : {PyNone, <<"5551234567">>},
     email : {PyNone, <<"info@x.com">>},
     address : {PyNone, <<"1 Main St", ", ", "Springfield">>,
                <<"Unit (5)", "\n", "Springfield">>}]

\* ResultsHandler.contractors.values(): Contractor objects with distinct
\* titles, in insertion order
ContractorLists ==
    {<<>>}
    \cup UNION {{<<c>> : c \in ContractorsOf(t)} : t \in Titles}
    \cup UNION {{<<c, d>> : c \in ContractorsOf(p[1]), d \in ContractorsOf(p[2])} :
                    p \in {q \in Titles \X Titles : q[1] # q[2]}}

\* Contractor.to_row
ToRow(c) ==
    [title |-> c.title, description |-> c.description, url |-> c.url,
     phone |-> c.phone, email |-> c.email, address |-> c.address]

\* Contractor.from_row
FromRow(title, description, url, phone, email, address) ==
    [title |-> title, description |-> description, url |-> url,
     phone |-> phone, email |-> email, address |-> address]

\* csv.writer quotes a field that holds the delimiter, the quote character
\* or a line break
NeedsQuote(v) == \E i \in 1..Len(v) : v[i] \in {",", ", ", "\"", "\n"}

\* csv.writer on one value: None is written as the empty field; a string is
\* quoted when needed, its quote characters doubled
WriteField(v) ==
    IF v = PyNone THEN <<>>
    ELSE IF NeedsQuote(v)
    THEN <<"\"">> \o Replace(v, <<"\"">>, <<"\"", "\"">>) \o <<"\"">>
    ELSE v

\* csv.reader on one field: the quotes are removed; the empty field is ''
ReadField(t) ==
    IF Len(t) >= 2 /\ t[1] = "\"" /\ t[Len(t)] = "\""
    THEN Replace(SubSeq(t, 2, Len(t) - 1), <<"\"", "\"">>, <<"\"">>)
    ELSE t

\* writer.writeheader()
HeaderRow == [k \in FieldNames |-> <<k>>]

\* writer.writerow(contractor.to_row())
WriteRow(c) == [k \in FieldNames |-> WriteField(ToRow(c)[k])]

\* ResultsHandler._write: the header, then one row per Contractor
WriteFile(cs) == <<HeaderRow>> \o [i \in 1..Len(cs) |-> WriteRow(cs[i])]

\* the Contractor of one row of the DictReader
ReadRow(r) ==
    FromRow(ReadField(r.title), ReadField(r.description), ReadField(r.url),
            ReadField(r.phone), ReadField(r.email), ReadField(r.address))

\* self.contractors[contractor.title] = contractor
DictPut(cs, c) ==
    IF \E i \in 1..Len(cs) : cs[i].title = c.title
    THEN [i \in 1..Len(cs) |-> IF cs[i].title = c.title THEN c ELSE cs[i]]
    ELSE Append(cs, c)

RECURSIVE ReadRows(_, _, _)
ReadRows(rows, i, cs) ==
    IF i > Len(rows) THEN cs
    ELSE ReadRows(rows, i + 1, DictPut(cs, ReadRow(rows[i])))

\* ResultsHandler._read into an empty dict: the header row is thrown out
ReadFile(rows) == ReadRows(rows, 2, <<>>)

InitCsv ==
    /\ UnitIdle
    /\ CrawlIdle
    /\ BatchIdle
    /\ MapIdle
    /\ CheckIdle
    /\ \E cs \in ContractorLists :
        csv = [pc |-> "write", contractors |-> cs, file |-> <<>>, loaded |-> <<>>]

\* ResultsHandler._write
CsvWrite ==
    /\ csv.pc = "write"
    /\ csv' = [csv EXCEPT !.pc = "read", !.file = WriteFile(csv.contractors)]
    /\ UNCHANGED besidesCsv

\* ResultsHandler._read, by the handler of the next run
CsvRead ==
    /\ csv.pc = "read"
    /\ csv' = [csv EXCEPT !.pc = "done", !.loaded = ReadFile(csv.file)]
    /\ UNCHANGED besidesCsv

NextCsv ==
    \/ CsvWrite
    \/ CsvRead

SpecCsv == InitCsv /\ [][NextCsv]_vars


(***************************************************************************)
(* The contractor-or-not decision on one search result:                    *)
(* ResultChecker.__call__ (parsers/ResultChecker.py), and                  *)
(* _is_contractor_site of SearchParser and of ContractorFinder.            *)
(***************************************************************************)
\* what the _is_contractor_chain can answer
ContractorResponses ==
    { <<"contractor">>, <<"not contractor">>, <<"Contractor">>,
      <<" ", "contractor", "\n">>, <<"Not Contractor", ".">>,
      <<"not contractor", ".">>, <<"It may be a ", "contractor", ".">>,
      <<"unsure">> }

\* what the _comparator_chain can answer
AlignmentResponses ==
    { <<"same">>, <<"not similar">>, <<"Same", ".">>, <<"Not similar">>, <<"unclear">> }

\* the tokens in which the text sub occurs
TokensWith(sub) ==
    IF sub = "contractor" THEN {"contractor", "not contractor"} ELSE {sub}

\* `sub in s`
HasSub(s, sub) == \E i \in 1..Len(s) : s[i] \in TokensWith(sub)

Whitespace == {" ", "\n"}

Max(S) == CHOOSE x \in S : \A y \in S : x >= y

\* str.strip()
Strip(s) ==
    LET keep == {i \in 1..Len(s) : s[i] \notin Whitespace}
    IN  IF keep = {} THEN <<>> ELSE SubSeq(s, Min(keep), Max(keep))

\* ResultChecker._is_contractor
IsContractor(response) ==
    IF HasSub(Lower(response), "not contractor") THEN "False"
    ELSE IF HasSub(Lower(response), "contractor") THEN "True"
    ELSE "raise"

\* ResultChecker._is_contractor_site
IsContractorSite(response) ==
    IF HasSub(Lower(response), "not similar") THEN "False"
    ELSE IF HasSub(Lower(response), "same") THEN "True"
    ELSE "raise"

\* SearchParser._is_contractor_site, ContractorFinder._is_contractor_site
IsContractorExact(response) ==
    IF Strip(response) = <<"contractor">> THEN "True"
    ELSE IF Strip(response) = <<"not contractor">> THEN "False"
    ELSE "raise"

Deciders == {"ResultChecker", "SearchParser", "ContractorFinder"}

InitCheck ==
    /\ UnitIdle
    /\ CrawlIdle
    /\ BatchIdle
    /\ MapIdle
    /\ CsvIdle
    /\ \E d \in Deciders :
        check = [pc |-> "invoke", decider |-> d, isContractor |-> <<>>,
                 alignment |-> <<>>, ret |-> "none"]

\* response = await cls._chain.ainvoke(...): ResultChecker's parallel chain
\* answers both questions, the other two ask the one
CheckInvoke ==
    /\ check.pc = "invoke"
    /\ \E r \in ContractorResponses :
        \E a \in IF check.decider = "ResultChecker" THEN AlignmentResponses ELSE {<<>>} :
            check' = [check EXCEPT !.pc = "contractor", !.isContractor = r, !.alignment = a]
    /\ UNCHANGED besidesCheck

\* the contractor response is parsed; ResultChecker's `and` goes on to the
\* alignment only when the result is True
CheckContractor ==
    /\ check.pc = "contractor"
    /\ LET r == IF check.decider = "ResultChecker" THEN IsContractor(check.isContractor)
                ELSE IsContractorExact(check.isContractor)
       IN  check' = IF r = "raise" THEN [check EXCEPT !.pc = "raised", !.ret = r]
                    ELSE IF r = "True" /\ check.decider = "ResultChecker"
                    THEN [check EXCEPT !.pc = "site"]
                    ELSE [check EXCEPT !.pc = "returned", !.ret = r]
    /\ UNCHANGED besidesCheck

\* ... and cls._is_contractor_site(alignment)
CheckSite ==
    /\ check.pc = "site"
    /\ LET r == IsContractorSite(check.alignment)
       IN  check' = IF r = "raise" THEN [check EXCEPT !.pc = "raised", !.ret = r]
                    ELSE [check EXCEPT !.pc = "returned", !.ret = r]
    /\ UNCHANGED besidesCheck

NextCheck ==
    \/ CheckInvoke
    \/ CheckContractor
    \/ CheckSite

SpecCheck == InitCheck /\ [][NextCheck]_vars


(***************************************************************************)
(* A run of the ResultsHandler: handle_results on batches of contractors,  *)
(* each new contractor crawled by a SiteCrawler, the crawls of a batch     *)
(* gathered, the store saved after the gather.  handlers/ResultsHandler.py *)
(* runs handlers/SiteCrawler.py; ResultsHandler.py runs                    *)
(* parsers/SiteCrawler.py, whose _pages and _fields are class attributes.  *)
(* A frontier url is a pair <<title, page>>.                               *)
(***************************************************************************)
\* the Contractor SearchHandler._extract_contractor creates
NewContractorOf(title, description) ==
    FromRow(title, description, UrlOf(title), PyNone, PyNone, PyNone)

Incoming == {NewContractorOf(t, <<"Builders">>) : t \in Titles}

\* the lists handle_results can be called with
Batches == UNION {[1..n -> Incoming] : n \in 0..MaxBatch}

\* contractor.title in self.contractors.keys()
HasKey(cs, title) == \E i \in 1..Len(cs) : cs[i].title = title

\* the loop body of handle_results: a contractor with a new title is stored
\* (mutant: every incoming contractor is taken as new)
IsNewAlways(cs, c) == TRUE

\* if contractor.title not in self.contractors.keys()
IsNew(cs, c) == ~HasKey(cs, c.title)

\* (mutant: the record is stored whether or not its title is known)
AddContractorReplacing(cs, c) == DictPut(cs, c)

AddContractor(cs, c) == IF IsNew(cs, c) THEN DictPut(cs, c) ELSE cs

\* the titles routines.append(self._scrape(contractor)) is called for, in
\* the order of the list
RECURSIVE Launches(_, _, _)
Launches(cs, batch, i) ==
    IF i > Len(batch) THEN <<>>
    ELSE (IF IsNew(cs, batch[i]) THEN <<batch[i].title>> ELSE <<>>)
            \o Launches(AddContractor(cs, batch[i]), batch, i + 1)

RECURSIVE AddAll(_, _, _)
AddAll(cs, batch, i) ==
    IF i > Len(batch) THEN cs
    ELSE AddAll(AddContractor(cs, batch[i]), batch, i + 1)

Keys(cs) == {cs[i].title : i \in 1..Len(cs)}

\* the file a previous run left: none, or one with a record
InitialStores ==
    {[exists |-> FALSE, rows |-> <<>>],
     [exists |-> TRUE,
      rows |-> WriteFile(<<FromRow(<<"Acme">>, <<"Roofing", ", ", "siding">>, UrlOf(<<"Acme">>),
                                   <<"5551234567">>, PyNone, PyNone)>>)]}

HomeOf(title) == <<title, Homepage>>

NoPage == <<>>

\* the documents the pages of a batch's sites hold
BatchDocs == {d \in CrawlDocs : ~d.footer /\ ~d.header}

\* how the call of the scraper of field f on document d can end: its
\* return value and what it passed to its callback
OutcomesOn(f, d) ==
    {<<f, d, [ret |-> t.ret, cb |-> t.cb]>> : t \in RunToEnd(f, d, InitSc(f))}

\* the ends of every scraper on every document of the batch
ScraperOutcomes ==
    UNION {OutcomesOn(p[1], p[2]) : p \in Fields \X BatchDocs}

AllOutcomes == {x[3] : x \in ScraperOutcomes}

\* the results of the scrapers gathered for the fields L on document d
GatherOutcomes(L, d) ==
    {r \in [L -> AllOutcomes] : \A f \in L : <<f, d, r[f]>> \in ScraperOutcomes}

\* (mutant: each scraper is handed the setter of the next field)
ApplyCallbacksCrossed(c, L, r) ==
    LET from == [address |-> "email", email |-> "phone", phone |-> "address"]
    IN  [k \in DOMAIN c |->
            IF k \in Fields /\ from[k] \in L /\ r[from[k]].cb # <<>>
            THEN r[from[k]].cb[Len(r[from[k]].cb)] ELSE c[k]]

\* the Contractor after the callbacks of the gathered scrapers
ApplyCallbacks(c, L, r) ==
    [k \in DOMAIN c |->
        IF k \in L /\ r[k].cb # <<>> THEN r[k].cb[Len(r[k].cb)] ELSE c[k]]

\* the orders in which a set of the three fields can be iterated
FieldOrders ==
    {o \in [1..3 -> Fields] : \A i, j \in 1..3 : i # j => o[i] # o[j]}

\* the fields of S in iteration order
InOrder(order, S) == SelectSeq(order, LAMBDA f : f \in S)

\* for result, field in zip(results, self._fields): if result: _removal.add(field).
\* The results are in the order of the fields L the scrapers were created
\* for; the fields paired with them are those of the set as it is now, C.
ZipRemoval(order, L, C, r) ==
    LET ls == InOrder(order, L)
        cs == InOrder(order, C)
        n  == IF Len(ls) <= Len(cs) THEN Len(ls) ELSE Len(cs)
    IN  {cs[i] : i \in {j \in 1..n : r[ls[j]].ret = "True"}}

\* a crawl coroutine that handle_results created and has not started
NewRoutine ==
    [pc |-> "created", pages |-> {}, fields |-> {}, page |-> NoPage,
     doc |-> EmptyDoc, launched |-> {}, startPages |-> {}, startFields |-> {}]

\* self._pages and self._fields of the crawler of title t
PagesOf(t) == IF crawlerModule = "parsers" THEN shared.pages ELSE routines[t].pages
FieldsOf(t) == IF crawlerModule = "parsers" THEN shared.fields ELSE routines[t].fields

\* while self._fields and self._pages: page = self._pages.pop(); the crawl
\* is then suspended in fetch_site, or has returned.  The crawl records and
\* frontiers this can lead to from frontier ps and pending fields fs.
LoopHead(rt, ps, fs) ==
    IF LoopGuard(fs, ps)
    THEN {[rec |-> [rt EXCEPT !.pc = "fetch", !.page = q], pages |-> Pop(ps, q)] : q \in ps}
    ELSE {[rec |-> [rt EXCEPT !.pc = "done", !.page = NoPage], pages |-> ps]}

\* the crawl of t goes on as rec with frontier ps and pending fields fs
Put(t, rec, ps, fs) ==
    IF crawlerModule = "parsers"
    THEN /\ routines' = [routines EXCEPT ![t] = rec]
         /\ shared' = [shared EXCEPT !.pages = ps, !.fields = fs]
    ELSE /\ routines' = [routines EXCEPT ![t] = [rec EXCEPT !.pages = ps, !.fields = fs]]
         /\ shared' = shared

\* the frontier with the urls of a site map, for the crawl of t
WithSitemapOf(t, o) == {<<t, u>> : u \in WithSitemap({Homepage}, o)}


\* ResultsHandler.__init__: self.load() reads the file if there is one
InitBatch ==
    /\ UnitIdle
    /\ CrawlIdle
    /\ MapIdle
    /\ CsvIdle
    /\ CheckIdle
    /\ crawlerModule \in {"handlers", "parsers"}
    /\ store \in InitialStores
    /\ contractors = IF store.exists THEN ReadFile(store.rows) ELSE <<>>
    /\ handler = [pc |-> "idle", calls |-> 0, dups |-> 0, crawled |-> <<>>]
    /\ routines = <<>>
    /\ \E o \in FieldOrders :
        /\ crawlerModule = "handlers" => o = <<"address", "email", "phone">>
        /\ shared = [pages |-> {}, fields |-> DefaultFields, order |-> o]

\* handle_results up to its await: the new contractors are stored and one
\* crawl coroutine per new contractor is handed to asyncio.gather; a
\* contractor whose title is known is logged as a duplicate
HandleResultsFrom(B) ==
    /\ handler.pc = "idle"
    /\ handler.calls < MaxCalls
    /\ \E batch \in B :
        LET cs  == AddAll(contractors, batch, 1)
            new == Launches(contractors, batch, 1)
        IN  /\ contractors' = cs
            /\ routines' = [t \in {new[i] : i \in 1..Len(new)} |-> NewRoutine]
            /\ handler' = [pc |-> "gather", calls |-> handler.calls + 1,
                           dups |-> handler.dups + Len(batch) - Len(new),
                           crawled |-> handler.crawled \o new]
    /\ UNCHANGED <<store, shared, crawlerModule>>
    /\ UNCHANGED besidesBatch

HandleResults == HandleResultsFrom(Batches)

\* _scrape: crawler = SiteCrawler(contractor); await crawler(), up to its
\* first await.  handlers: __init__ makes the two sets, __call__ awaits the
\* site map.  parsers: __init__ adds the url to the class's set, __call__
\* enters its loop.
CrawlStart(t) ==
    /\ handler.pc = "gather"
    /\ t \in DOMAIN routines
    /\ routines[t].pc = "created"
    /\ IF crawlerModule = "parsers"
       THEN LET ps == shared.pages \cup {HomeOf(t)}
                rt == [routines[t] EXCEPT !.startPages = ps,
                                          !.startFields = shared.fields]
            IN  \E n \in LoopHead(rt, ps, shared.fields) :
                    Put(t, n.rec, n.pages, shared.fields)
       ELSE Put(t, [routines[t] EXCEPT !.pc = "sitemap",
                                       !.startPages = {HomeOf(t)},
                                       !.startFields = DefaultFields],
                {HomeOf(t)}, DefaultFields)
    /\ UNCHANGED <<handler, contractors, store, crawlerModule>>
    /\ UNCHANGED besidesBatch

\* asyncio.gather makes a task of every crawl; the event loop runs the first
\* step of each of them before it polls for the I/O any of them awaits
AllStarted == \A t \in DOMAIN routines : routines[t].pc # "created"

\* handlers: _add_sitemap ended; the crawl enters its loop, or the
\* extractor's exception leaves the crawl
CrawlSitemap(t) ==
    /\ handler.pc = "gather"
    /\ t \in DOMAIN routines
    /\ routines[t].pc = "sitemap"
    /\ AllStarted
    /\ \E o \in SiteMapOutcomes :
        IF o.t = "error"
        THEN Put(t, [routines[t] EXCEPT !.pc = "raised"], PagesOf(t), FieldsOf(t))
        ELSE LET ps == IF o.t = "ok" THEN WithSitemapOf(t, o) ELSE PagesOf(t)
             IN  /\ Cardinality(ps) <= 1 + MaxDiscovered
                 /\ \E n \in LoopHead(routines[t], ps, FieldsOf(t)) :
                        Put(t, n.rec, n.pages, FieldsOf(t))
    /\ UNCHANGED <<handler, contractors, store, crawlerModule>>
    /\ UNCHANGED besidesBatch

\* _scrape_page: fetch_site ended.  The scrapers of the fields pending now
\* are created and gathered; handlers skips the page on a ValueError; any
\* other exception leaves the crawl.
CrawlFetched(t) ==
    /\ handler.pc = "gather"
    /\ t \in DOMAIN routines
    /\ routines[t].pc = "fetch"
    /\ AllStarted
    /\ \E o \in FetchOutcomes :
        /\ o.doc \in BatchDocs
        /\ IF o.t = "ok"
           THEN Put(t, [routines[t] EXCEPT !.pc = "scrape", !.doc = o.doc,
                                           !.launched = FieldsOf(t)],
                    PagesOf(t), FieldsOf(t))
           ELSE IF o.t = "valueerror" /\ crawlerModule = "handlers"
           THEN \E n \in LoopHead(routines[t], PagesOf(t), FieldsOf(t)) :
                    Put(t, n.rec, n.pages, FieldsOf(t))
           ELSE Put(t, [routines[t] EXCEPT !.pc = "raised"], PagesOf(t), FieldsOf(t))
    /\ UNCHANGED <<handler, contractors, store, crawlerModule>>
    /\ UNCHANGED besidesBatch

\* _scrape_page: the gather of the page's scrapers ended.  Their callbacks
\* have set the Contractor's fields; the fields paired with a true result
\* leave the pending set and the crawl is back at its loop; a scraper's
\* exception leaves the crawl.
CrawlGathered(t) ==
    /\ handler.pc = "gather"
    /\ t \in DOMAIN routines
    /\ routines[t].pc = "scrape"
    /\ AllStarted
    /\ LET rt   == routines[t]
           back == [rt EXCEPT !.doc = EmptyDoc, !.launched = {}]
       IN  \E r \in GatherOutcomes(rt.launched, rt.doc) :
            /\ contractors' =
                [i \in 1..Len(contractors) |->
                    IF contractors[i].title = t
                    THEN ApplyCallbacks(contractors[i], rt.launched, r)
                    ELSE contractors[i]]
            /\ IF \E f \in rt.launched : r[f].ret = "raise"
               THEN Put(t, [back EXCEPT !.pc = "raised"], PagesOf(t), FieldsOf(t))
               ELSE LET fs == FieldsOf(t)
                                \ ZipRemoval(shared.order, rt.launched, FieldsOf(t), r)
                    IN  \E n \in LoopHead(back, PagesOf(t), fs) :
                            Put(t, n.rec, n.pages, fs)
    /\ UNCHANGED <<handler, store, crawlerModule>>
    /\ UNCHANGED besidesBatch

\* (mutant: the gather returns as soon as one crawl has returned)
GatherAnyDone(rs) == \E t \in DOMAIN rs : rs[t].pc = "done"

\* await asyncio.gather(*routines) returns when every crawl has returned
GatherDone(rs) == \A t \in DOMAIN rs : rs[t].pc = "done"

\* (mutant: the file is opened for appending)
SaveAppend(st, cs) ==
    [exists |-> TRUE,
     rows |-> IF st.exists THEN st.rows \o Tail(WriteFile(cs)) ELSE WriteFile(cs)]

\* ResultsHandler.save: _write opens the file with 'w' and writes every
\* Contractor of self.contractors
Save(st, cs) == [exists |-> TRUE, rows |-> WriteFile(cs)]

\* handle_results after the gather: self.save() writes the file
GatherReturn ==
    /\ handler.pc = "gather"
    /\ GatherDone(routines)
    /\ store' = Save(store, contractors)
    /\ handler' = [handler EXCEPT !.pc = "idle"]
    /\ routines' = <<>>
    /\ UNCHANGED <<contractors, shared, crawlerModule>>
    /\ UNCHANGED besidesBatch

\* a crawl's exception leaves asyncio.gather, handle_results and the
\* search handler that awaits it; asyncio.run (run.py) cancels the crawls
\* that are still suspended
GatherRaise ==
    /\ handler.pc = "gather"
    /\ \E t \in DOMAIN routines : routines[t].pc = "raised"
    /\ handler' = [handler EXCEPT !.pc = "raised"]
    /\ routines' = [t \in DOMAIN routines |->
                        IF routines[t].pc \in {"done", "raised"} THEN routines[t]
                        ELSE [routines[t] EXCEPT !.pc = "cancelled"]]
    /\ UNCHANGED <<contractors, store, shared, crawlerModule>>
    /\ UNCHANGED besidesBatch

NextBatch ==
    \/ HandleResults
    \/ \E t \in Titles : CrawlStart(t)
    \/ \E t \in Titles : CrawlSitemap(t)
    \/ \E t \in Titles : CrawlFetched(t)
    \/ \E t \in Titles : CrawlGathered(t)
    \/ GatherReturn
    \/ GatherRaise

SpecBatch == InitBatch /\ [][NextBatch]_vars

(***************************************************************************)
(* The program run.py runs: the ResultsHandler of src/ResultsHandler.py,   *)
(* whose crawls are parsers.SiteCrawler objects, on the results of a       *)
(* search that finds four contractors.                                     *)
(***************************************************************************)

\* the titles of the search results, by rank
RunTitles == << <<"Acme">>, <<"Bolt", ", ", "Inc">>, <<"Cord">>, <<"Dune">> >>

\* the lists handle_results is called with: the search delivers its
\* results page by page, two results to a page
RunBatches ==
    {<<NewContractorOf(RunTitles[i], <<"Builders">>),
       NewContractorOf(RunTitles[i + 1], <<"Builders">>)>> : i \in {1, 3}}

\* the order in which this process iterates a set of the three fields (the
\* hash of an Enum member is the hash of its name, which is seeded per
\* process)
RunOrder == <<"phone", "email", "address">>

\* handler = ResultsHandler() with no file of an earlier run
InitRun ==
    /\ UnitIdle
    /\ CrawlIdle
    /\ MapIdle
    /\ CsvIdle
    /\ CheckIdle
    /\ crawlerModule = "parsers"
    /\ store = [exists |-> FALSE, rows |-> <<>>]
    /\ contractors = <<>>
    /\ handler = [pc |-> "idle", calls |-> 0, dups |-> 0, crawled |-> <<>>]
    /\ routines = <<>>
    /\ shared = [pages |-> {}, fields |-> DefaultFields, order |-> RunOrder]

HandleRunResults == HandleResultsFrom(RunBatches)

NextRun ==
    \/ HandleRunResults
    \/ \E t \in DOMAIN routines : CrawlStart(t)
    \/ \E t \in DOMAIN routines : CrawlFetched(t)
    \/ \E t \in DOMAIN routines : CrawlGathered(t)
    \/ GatherReturn
    \/ GatherRaise

SpecRun == InitRun /\ [][NextRun]_vars


(***************************************************************************)
(* A search result turned into a Contractor (SearchHandler and             *)
(* SearchParser, _extract_contractor): the url is stripped with            *)
(* urllib.parse.  A url is the sequence of its tokens:                     *)
(*   scheme "://" netloc [path] [";" params] ["?" query] ["#" fragment]    *)
(***************************************************************************)
BesidesSearch == <<crawlVars, mapVars, csvVars, checkVars, batchVars, svc, scan, parse, visit>>

\* the urls of the search results
SearchUrls ==
    {<<sch, "://", h>> \o pth \o qry \o frg :
        sch \in {"https", "http"},
        h \in {"acme.com", "bolt.com"},
        pth \in {<<>>, <<"/about">>, <<"/about", ";", "v=2">>,
                 <<"/a/b">>, <<"/a/b", ";", "v=2">>},
        qry \in {<<>>, <<"?", "utm=1">>},
        frg \in {<<>>, <<"#", "top">>}}

\* the first position of token k in u, or 0
IndexOf(u, k) ==
    IF \E i \in 1..Len(u) : u[i] = k
    THEN CHOOSE i \in 1..Len(u) : u[i] = k /\ \A j \in 1..(i - 1) : u[j] # k
    ELSE 0

\* what follows the first token k in u (nothing when k is not in u)
After(u, k) == IF IndexOf(u, k) = 0 THEN <<>> ELSE SubSeq(u, IndexOf(u, k) + 1, Len(u))

\* what precedes the first token k in u (all of u when k is not in u)
Before(u, k) == IF IndexOf(u, k) = 0 THEN u ELSE SubSeq(u, 1, IndexOf(u, k) - 1)

\* urllib.parse.urlparse: the six components of the url
UrlParse(u) ==
    LET rest  == SubSeq(u, 4, Len(u))
        noFrg == Before(rest, "#")
        noQry == Before(noFrg, "?")
    IN  [scheme   |-> u[1],
         netloc   |-> u[3],
         path     |-> Before(noQry, ";"),
         params   |-> After(noQry, ";"),
         query    |-> After(noFrg, "?"),
         fragment |-> After(rest, "#")]

\* ParseResult.geturl (urlunparse): the components put together again
GetUrl(p) ==
    <<p.scheme, "://", p.netloc>> \o p.path
        \o (IF p.params = <<>> THEN <<>> ELSE <<";">> \o p.params)
        \o (IF p.query = <<>> THEN <<>> ELSE <<"?">> \o p.query)
        \o (IF p.fragment = <<>> THEN <<>> ELSE <<"#">> \o p.fragment)

\* strip_url: urlparse(url)._replace(path='')._replace(params='').geturl()
StripUrl(u) == GetUrl([UrlParse(u) EXCEPT !.path = <<>>, !.params = <<>>])

\* a search result with its url
InitSearch ==
    /\ CrawlIdle
    /\ MapIdle
    /\ CsvIdle
    /\ CheckIdle
    /\ BatchIdle
    /\ SvcIdle
    /\ ScanIdle
    /\ ParseIdle
    /\ VisitIdle
    /\ \E u \in SearchUrls : search = [pc |-> "result", url |-> u, contractorUrl |-> <<>>]

\* _extract_contractor: url = strip_url(result.url); Contractor(title, desc, url)
ExtractContractor ==
    /\ search.pc = "result"
    /\ search' = [search EXCEPT !.pc = "extracted", !.contractorUrl = StripUrl(search.url)]
    /\ UNCHANGED BesidesSearch

NextSearch == ExtractContractor

SpecSearch == InitSearch /\ [][NextSearch]_vars

(***************************************************************************)
(* Contractor.services and add_service (src/typedefs/contractor.py and     *)
(* src/models/Contractor.py).  `services: list[str] = []` is in the class  *)
(* body: one list object, made when the class is.  __init__ assigns title, *)
(* description and url only, so an instance has no services attribute of   *)
(* its own and self.services is the class's list.                          *)
(***************************************************************************)
BesidesServices == <<crawlVars, mapVars, csvVars, checkVars, batchVars, search, scan, parse, visit>>

\* the services add_service is called with
ServiceNames == {"roofing", "siding", "gutters", "decks"}

\* Contractor.__init__: no services attribute is assigned
NewInstance == PyNone

\* self.services: the instance's attribute if it has one, else the class's
ServicesOf(t) == IF svc.own[t] # PyNone THEN svc.own[t] ELSE svc.cls

\* service in self.services
InList(l, s) == \E i \in 1..Len(l) : l[i] = s

\* how many times s is in the list l
CountIn(l, s) == Cardinality({i \in 1..Len(l) : l[i] = s})

\* (mutant: the service is appended without the membership test)
AppendedAlways(l, s) == Append(l, s)

\* if service not in self.services: self.services.append(service)
Appended(l, s) == IF InList(l, s) THEN l ELSE Append(l, s)

\* the Contractors of a run, just constructed
InitServices ==
    /\ CrawlIdle
    /\ MapIdle
    /\ CsvIdle
    /\ CheckIdle
    /\ BatchIdle
    /\ SearchIdle
    /\ ScanIdle
    /\ ParseIdle
    /\ VisitIdle
    /\ svc = [pc |-> "on", cls |-> <<>>, own |-> [t \in Titles |-> NewInstance],
              last |-> NoCall]

\* contractor.add_service(service): list.append changes the list object
\* self.services names, which is the class's when the instance has none
AddService(t, s) ==
    /\ svc.pc = "on"
    /\ svc' = IF svc.own[t] # PyNone
              THEN [svc EXCEPT !.own[t] = Appended(svc.own[t], s),
                               !.last = [who |-> t, service |-> s]]
              ELSE [svc EXCEPT !.cls = Appended(svc.cls, s),
                               !.last = [who |-> t, service |-> s]]
    /\ UNCHANGED BesidesServices

NextServices == \E t \in Titles : \E s \in ServiceNames : AddService(t, s)

SpecServices == InitServices /\ [][NextServices]_vars

(***************************************************************************)
(* The small-element scan of TextSnippetScraper, element by element:       *)
(* _snippet_chunks and _process_chunks.  A document is the sequence of its *)
(* candidate elements in document order; an element has its position, its *)
(* tag and the value its classification gives (PyNone when _process        *)
(* returns None for it).                                                   *)
(***************************************************************************)
BesidesScan == <<crawlVars, mapVars, csvVars, checkVars, batchVars, search, svc, parse, visit>>

\* for i in ('p', 'span', 'a', 'strong', 'li', 'b', 'u', 'font')
SnippetTags == <<"p", "span", "a", "strong", "li", "b", "u", "font">>

\* the positions at which a document of the model has an element that is
\* not a plain <p>, and the tags of these elements
MarkedPositions == {1, 2, ChunkSize}
MarkedTags == {"p", "span", "a"}

\* the value the classification of the element at position i gives
ValueAt(i) ==
    CASE i = 1 -> <<"(555) 000-0001">>
      [] i = 2 -> <<"(555) 000-0002">>
      [] OTHER -> <<"(555) 000-0100">>

\* documents of ChunkSize elements: <p> elements whose classification gives
\* nothing, but for at most two elements whose classification gives a value
ScanDocs ==
    {[i \in 1..ChunkSize |->
        IF i \in DOMAIN m THEN [pos |-> i, tag |-> m[i], value |-> ValueAt(i)]
        ELSE [pos |-> i, tag |-> "p", value |-> PyNone]] :
     m \in UNION {[M -> MarkedTags] :
                    M \in {S \in SUBSET MarkedPositions : Cardinality(S) <= 2}}}

\* content.find_all(i): the elements of one tag, in document order
FindAll(doc, tag) == SelectSeq(doc, LAMBDA e : e.tag = tag)

\* the elements in the order _snippet_chunks appends them: tag by tag
RECURSIVE Collected(_, _)
Collected(doc, k) ==
    IF k > Len(SnippetTags) THEN <<>>
    ELSE FindAll(doc, SnippetTags[k]) \o Collected(doc, k + 1)

\* _snippet_chunks: a batch is yielded each time ChunkSize elements have
\* been appended
ChunksOf(doc) ==
    LET all == Collected(doc, 1)
    IN  [k \in 1..(Len(all) \div ChunkSize) |->
            SubSeq(all, (k - 1) * ChunkSize + 1, k * ChunkSize)]

\* the elements of a batch whose classification gives a value
Answering(chunk) == {i \in 1..Len(chunk) : chunk[i].value # PyNone}

\* a document whose header and footer gave nothing
InitScan ==
    /\ CrawlIdle
    /\ MapIdle
    /\ CsvIdle
    /\ CheckIdle
    /\ BatchIdle
    /\ SearchIdle
    /\ SvcIdle
    /\ ParseIdle
    /\ VisitIdle
    /\ \E d \in ScanDocs :
        scan = [pc |-> "scan", doc |-> d, chunk |-> <<>>, completed |-> <<>>,
                value |-> <<>>]

\* for chunk in self._snippet_chunks(_content): _process_chunks creates the
\* classifications of the batch and awaits their gather
StartChunk ==
    /\ scan.pc = "scan"
    /\ ChunksOf(scan.doc) # <<>>
    /\ scan' = [scan EXCEPT !.pc = "gather", !.chunk = ChunksOf(scan.doc)[1]]
    /\ UNCHANGED BesidesScan

\* one of the concurrent classifications of the batch completes (those
\* that give nothing are not recorded)
Complete(i) ==
    /\ scan.pc = "gather"
    /\ i \in Answering(scan.chunk)
    /\ \A j \in 1..Len(scan.completed) : scan.completed[j] # i
    /\ scan' = [scan EXCEPT !.completed = Append(@, i)]
    /\ UNCHANGED BesidesScan

\* asyncio.gather returned the results in the order of the batch: the
\* first that is not None goes to the callback
ProcessChunks ==
    /\ scan.pc = "gather"
    /\ Len(scan.completed) = Cardinality(Answering(scan.chunk))
    /\ scan' = IF Answering(scan.chunk) # {}
               THEN [scan EXCEPT !.pc = "found",
                                 !.value = scan.chunk[Min(Answering(scan.chunk))].value]
               ELSE [scan EXCEPT !.pc = "fallback"]
    /\ UNCHANGED BesidesScan

NextScan ==
    \/ StartChunk
    \/ \E i \in 1..ChunkSize : Complete(i)
    \/ ProcessChunks

SpecScan == InitScan /\ [][NextScan]_vars

(***************************************************************************)
(* SearchHandler._parse_results (src/handlers/SearchHandler.py) on one     *)
(* batch of search results: the blacklist filter, the gather of the        *)
(* ResultChecker calls, the extraction, and the hand-over to the           *)
(* ResultsHandler through _on_parse.                                       *)
(***************************************************************************)
BesidesParse == <<crawlVars, mapVars, csvVars, checkVars, batchVars, search, svc, scan, visit>>

\* the urls of the search results of a batch
ResultUrls ==
    { <<"https", "://", "acme.com">>,
      <<"https", "://", "bolt.com", "/about">>,
      <<"https", "://", "yelp.com", "/biz/acme">>,
      <<"https", "://", "springfield.gov", "/permits">> }

\* blacklist.txt (not in the repository): strings such as "yelp.com" and
\* ".gov"; these are the tokens of the model's urls in which one occurs
BlacklistedTokens == {"yelp.com", "springfield.gov"}

\* any([blacklist in result.url for blacklist in self._blacklist])
Blacklisted(url) == \E i \in 1..Len(url) : url[i] \in BlacklistedTokens

\* what the two chains of the ResultChecker answer for a result
CheckerAnswers ==
    [isContractor : {<<"contractor">>, <<"not contractor">>, <<"unsure">>},
     alignment : {<<"same">>}]

\* ResultChecker.__call__:
\* cls._is_contractor(is_contractor) and cls._is_contractor_site(alignment)
CheckerCall(a) ==
    IF IsContractor(a.isContractor) = "True" THEN IsContractorSite(a.alignment)
    ELSE IsContractor(a.isContractor)

\* a batch of two search results with the answers the chains give for them
ResultBatches == [1..2 -> [url : ResultUrls, answers : CheckerAnswers]]

\* (mutant: no result is filtered out)
KeptAll(results) == DOMAIN results

\* results = [result for result in results if not any(...)]
Kept(results) == {i \in DOMAIN results : ~Blacklisted(results[i].url)}

\* the indices of S in ascending order
RECURSIVE Ascending(_)
Ascending(S) == IF S = {} THEN <<>> ELSE <<Min(S)>> \o Ascending(S \ {Min(S)})

InitParse ==
    /\ CrawlIdle
    /\ MapIdle
    /\ CsvIdle
    /\ CheckIdle
    /\ BatchIdle
    /\ SearchIdle
    /\ SvcIdle
    /\ ScanIdle
    /\ VisitIdle
    /\ \E b \in ResultBatches :
        parse = [pc |-> "results", results |-> b, kept |-> {},
                 verdict |-> [i \in DOMAIN b |-> "none"], passed |-> <<>>]

\* the blacklist filter, then asyncio.gather over self._is_contractor_site
\* of every result that is left: their calls are started
FilterAndClassify ==
    /\ parse.pc = "results"
    /\ parse' = [parse EXCEPT !.pc = "classify", !.kept = Kept(parse.results),
                    !.verdict = [i \in DOMAIN parse.results |->
                                    IF i \in Kept(parse.results) THEN "pending" ELSE "none"]]
    /\ UNCHANGED BesidesParse

\* one of the gathered ResultChecker calls ends: True, False or a ValueError
ClassifierReturns(i) ==
    /\ parse.pc = "classify"
    /\ i \in parse.kept
    /\ parse.verdict[i] = "pending"
    /\ parse' = [parse EXCEPT !.verdict[i] = CheckerCall(parse.results[i].answers)]
    /\ UNCHANGED BesidesParse

\* the first exception of a gathered call leaves asyncio.gather and
\* _parse_results, which has no try
ClassifyRaises ==
    /\ parse.pc = "classify"
    /\ \E i \in parse.kept : parse.verdict[i] = "raise"
    /\ parse' = [parse EXCEPT !.pc = "raised"]
    /\ UNCHANGED BesidesParse

\* every call returned: a Contractor is extracted for each True, and
\* await self._on_parse(contractors) hands them on
ExtractAndPass ==
    /\ parse.pc = "classify"
    /\ \A i \in parse.kept : parse.verdict[i] \in {"True", "False"}
    /\ LET yes == Ascending({i \in parse.kept : parse.verdict[i] = "True"})
       IN  parse' = [parse EXCEPT !.pc = "passed",
                        !.passed = [k \in 1..Len(yes) |->
                                        [from |-> yes[k],
                                         url |-> StripUrl(parse.results[yes[k]].url)]]]
    /\ UNCHANGED BesidesParse

NextParse ==
    \/ FilterAndClassify
    \/ \E i \in 1..2 : ClassifierReturns(i)
    \/ ClassifyRaises
    \/ ExtractAndPass

SpecParse == InitParse /\ [][NextParse]_vars

(***************************************************************************)
(* The documents of one page visit.  _scrape_page hands the same fetched   *)
(* body to every scraper; each scraper, up to its first await, looks for   *)
(* its link (phone, email) and makes its own stripped copy.  Documents are *)
(* objects: visit.heap holds their contents, a reference is an index.      *)
(* copy(content) is bs4's Tag.__copy__, which builds a new tree holding    *)
(* copies of the tag's contents.                                           *)
(***************************************************************************)
BesidesVisit == <<crawlVars, mapVars, csvVars, checkVars, batchVars, search, svc, scan, parse>>

\* the reference of the body fetch_site returned
Fetched == 1

\* the bodies of a visit: their anchors matter here
VisitDocs == {d \in Docs : ~d.footer /\ ~d.header /\ d.nP = 0}

\* (mutant: the copy is the document itself)
CopyShared(h, ref) == [heap |-> h, ref |-> ref]

\* copy(content): a new object with a copy of the contents
CopyOf(h, ref) == [heap |-> Append(h, h[ref]), ref |-> Len(h) + 1]

\* strip_html_attrs / AddressScraper._strip_extra_data:
\* for tag in content.find_all(True): tag.attrs = {}
StripHtmlAttrs(d) ==
    [d EXCEPT !.anchors = [i \in 1..Len(d.anchors) |-> [hasHref |-> FALSE, href |-> <<>>]]]

\* _content = strip_html_attrs(copy(content)): the objects after it, and
\* the reference of _content
StrippedCopy(h, ref) ==
    LET c == CopyOf(h, ref)
    IN  [heap |-> [c.heap EXCEPT ![c.ref] = StripHtmlAttrs(@)], ref |-> c.ref]

\* results = await asyncio.gather(*coroutines): no scraper has started
InitVisit ==
    /\ CrawlIdle
    /\ MapIdle
    /\ CsvIdle
    /\ CheckIdle
    /\ BatchIdle
    /\ SearchIdle
    /\ SvcIdle
    /\ ScanIdle
    /\ ParseIdle
    /\ \E d \in VisitDocs :
        visit = [pc |-> "gather", heap |-> <<d>>, fetched |-> d,
                 work |-> [f \in Fields |-> 0],
                 lookup |-> [f \in Fields |-> "none"]]

\* the scraper of f runs up to its first await: the phone and email
\* scrapers look for their link in the body they were given and return
\* when they find one; otherwise, and for the address scraper, the stripped
\* copy is made and its first snippet goes to the chain
StartScraper(f) ==
    /\ visit.pc = "gather"
    /\ visit.lookup[f] = "none"
    /\ IF f # "address" /\ ShortcutAnchors(f, visit.heap[Fetched]) # {}
       THEN visit' = [visit EXCEPT !.lookup[f] = "link"]
       ELSE LET c == StrippedCopy(visit.heap, Fetched)
            IN  visit' = [visit EXCEPT !.lookup[f] = "no link", !.heap = c.heap,
                                       !.work[f] = c.ref]
    /\ UNCHANGED BesidesVisit

NextVisit == \E f \in Fields : StartScraper(f)

SpecVisit == InitVisit /\ [][NextVisit]_vars

(***************************************************************************)
(* Properties.                                                             *)
(***************************************************************************)

C2_UnfoundFieldsUnset ==
    pc = "done" => \A f \in fields : contractor[f] = PyNone

C6_ScraperContract ==
    \A f \in launched :
        sc[f].ret \notin {"pending", "raise"} =>
            IF sc[f].cb # <<>>
            THEN Len(sc[f].cb) = 1 /\ sc[f].ret = "True"
            ELSE sc[f].ret = "False"

\* the document's mailto anchor is mailto:info@x.com: the first anchor whose
\* href contains 'mailto' has that href
C7_MailtoInfoDoc(doc) ==
    \E i \in 1..Len(doc.anchors) :
        /\ doc.anchors[i].hasHref
        /\ doc.anchors[i].href = <<"mailto", ":", "info@x.com">>
        /\ \A j \in 1..(i - 1) :
            ~(doc.anchors[j].hasHref /\ Contains(doc.anchors[j].href, "mailto"))

C8_HasTel(doc) ==
    \E i \in 1..Len(doc.anchors) :
        doc.anchors[i].hasHref /\ doc.anchors[i].href[1] = "tel:"

\* C8: on a document with a tel: anchor the Phone scraper makes no classifier
\* call and never enters the text-snippet extractor; it returns True after
\* passing the link target without "tel:" to the callback once.  A Phone
\* scraper call that has entered the extractor is on a document without a
\* tel: anchor, and one that returned on such a document went through it.
C8_TelShortcut ==
    "phone" \in launched =>
        /\ C8_HasTel(content) =>
            /\ sc["phone"].idx = 0
            /\ sc["phone"].calls = 0
            /\ sc["phone"].ret \in {"pending", "True"}
            /\ sc["phone"].ret = "True" =>
                /\ sc["phone"].cb = << <<"5551234567">> >>
                /\ contractor["phone"] = <<"5551234567">>
        /\ (~C8_HasTel(content) /\ sc["phone"].ret # "pending") => sc["phone"].idx >= 1

\* C8 witness: the Phone scraper returned on a document whose second anchor
\* is the tel: link
C8_Witness ==
    /\ "phone" \in launched
    /\ Len(content.anchors) = 2
    /\ ~content.anchors[1].hasHref
    /\ content.anchors[2].href = <<"tel:", "5551234567">>
    /\ sc["phone"].ret = "True"

\* C9: when the Phone scraper has classified the header (the document has no
\* tel: anchor and the footer, if any, gave nothing) and the phone oracle
\* answered (555) 123-4567 for it within the retry limit, the scraper
\* returned True and passed exactly that value to the callback.
C9_HeaderPhone ==
    ("phone" \in launched
        /\ sc["phone"].last.k = "header"
        /\ sc["phone"].last.script.rl < MaxRetries
        /\ sc["phone"].last.script.fin = [t |-> "str", s |-> <<"(555) 123-4567">>])
    =>  /\ sc["phone"].ret = "True"
        /\ sc["phone"].cb = << <<"(555) 123-4567">> >>
        /\ contractor["phone"] = <<"(555) 123-4567">>

\* C9 witness: such a call on a document with mailto-free, tel-free anchors
\* and a header but no footer, the oracle having been rate-limited first
C9_Witness ==
    /\ "phone" \in launched
    /\ content.header /\ ~content.footer
    /\ ~C8_HasTel(content)
    /\ \A i \in 1..Len(content.anchors) : ~content.anchors[i].hasHref
    /\ sc["phone"].last.k = "header"
    /\ sc["phone"].last.script = [rl |-> MaxRetries - 1,
                                   fin |-> [t |-> "str", s |-> <<"(555) 123-4567">>]]
    /\ sc["phone"].ret = "True"

\* C10: a fetch failure is never fatal: after fetch_site fails the crawl is
\* back at its loop with the pending fields unchanged and the page not
\* fetched again.
C10_FetchFailureNotFatal ==
    [][ pc = "fetch" =>
            /\ pc' \in {"scrape", "loop"}
            /\ (pc' = "loop" => fields' = fields /\ fetches' = fetches) ]_vars

\* C11: site-map discovery never aborts the crawl: whatever the discovery
\* does (a failed homepage fetch included), the crawl goes on to its loop with
\* the homepage in the frontier and, when the discovery failed, with the
\* frontier and the pending fields as they were.
C11_DiscoveryFailureNotFatal ==
    [][ pc = "sitemap" =>
            /\ pc' = "loop"
            /\ Homepage \in pages'
            /\ fields' = fields ]_vars

\* C18: a rate-limit error during a classification never reaches the crawl
\* as an exception, for any field scraper; when the oracle was rate-limited
\* MaxRetries times the classification gave no answer (nothing was passed to
\* the callback).
C18_RateLimitDegrades ==
    \A f \in launched :
        sc[f].last.script.rl > 0 =>
            /\ sc[f].ret # "raise"
            /\ (sc[f].last.script.rl >= MaxRetries => sc[f].cb = <<>>)

\* C19: a step whose classification ended with an input-too-large error (no
\* rate limit before it) invoked the classifier once per element of the step,
\* passed nothing to the callback, raised nothing, and the call went on to
\* its next step.
C19_TooLargeNotRetried ==
    [][ \A f \in launched :
            (pc = "call" /\ sc'[f] # sc[f]
                /\ StepKind(f, content, sc[f]) \notin {"shortcut", "end"}
                /\ sc'[f].last.script = [rl |-> 0, fin |-> [t |-> "toolarge", s |-> <<>>]])
            =>  /\ sc'[f].calls = sc[f].calls + Steps(f, content)[sc[f].idx].n
                /\ sc'[f].cb = sc[f].cb
                /\ sc'[f].ret = "pending"
                /\ sc'[f].idx = sc[f].idx + 1 ]_vars

\* C19 witness: the Address scraper went past a footer whose classification
\* was too large, after one invocation, and then classified the header
C19_Witness ==
    /\ pc = "call"
    /\ "address" \in launched
    /\ content.footer /\ content.header
    /\ sc["address"].last.k = "footer"
    /\ sc["address"].last.script = [rl |-> 0, fin |-> [t |-> "toolarge", s |-> <<>>]]
    /\ sc["address"].calls = 1
    /\ sc["address"].idx = 2
    /\ sc["address"].ret = "pending"

\* C12: the links handed to the site-map oracle hold no link to another
\* host than the homepage's.
C12_ExternalLinksExcluded ==
    extractor.pc \in {"invoke", "returned"} =>
        \A i \in 1..Len(extractor.links) : ~IsExternal(extractor.links[i])

\* C14: the Contractor records read back from the CSV file are the records
\* that were written: title, description, url, phone, email and address of
\* each are identical, unset fields included.
C14_CsvRoundTrip ==
    csv.pc = "done" => csv.loaded = csv.contractors

\* C15: a decision that returned a boolean had no response outside the
\* sentinels: its contractor response names 'contractor' or 'not contractor'
\* and, for ResultChecker, its alignment response names 'same' or
\* 'not similar'; any other response made the decision raise.
C15_AmbiguousRaises ==
    check.pc = "returned" =>
        /\ HasSub(Lower(check.isContractor), "contractor")
        /\ (check.decider = "ResultChecker" =>
                \/ HasSub(Lower(check.alignment), "same")
                \/ HasSub(Lower(check.alignment), "not similar"))

\* C13: whatever handle_results calls and saves have happened since the
\* load, no two rows of the persisted store have the same title.
C13_PersistedTitlesUnique ==
    \A i, j \in 2..Len(store.rows) :
        i # j => ReadRow(store.rows[i]).title # ReadRow(store.rows[j]).title

\* a second batch was saved, a contractor with a known title was skipped,
\* and the store holds two records
C13_Witness ==
    /\ handler.pc = "idle"
    /\ handler.calls = 2
    /\ handler.dups > 0
    /\ Len(store.rows) = 3

\* C16: handle_results hands the crawls of all the batch's new contractors
\* to one gather, and the store is written only when every one of those
\* crawls has returned.
C16_SaveAfterAllCrawls ==
    [][ /\ (handler.pc = "idle" /\ handler'.pc = "gather")
            => /\ DOMAIN routines' = Keys(contractors') \ Keys(contractors)
               /\ \A t \in DOMAIN routines' : routines'[t].pc = "created"
        /\ store' # store
            => /\ handler.pc = "gather"
               /\ \A t \in DOMAIN routines : routines[t].pc = "done" ]_vars

\* the store holds the two contractors of one batch, both crawled, one of
\* them with a phone number its crawl found
C16_Witness ==
    /\ handler.pc = "idle"
    /\ handler.calls = 1
    /\ store.rows = WriteFile(contractors)
    /\ Len(contractors) = 2
    /\ \A i \in 1..2 : contractors[i].description = <<"Builders">>
    /\ \E i \in 1..2 : contractors[i].phone # PyNone

\* C17: when one crawl of a batch fails, every other crawl of the batch
\* still runs to its end: none is abandoned before it has returned
\* (handlers.SiteCrawler).
C17_FailingCrawlDoesNotBlock ==
    crawlerModule = "handlers" =>
        \A t \in DOMAIN routines : routines[t].pc # "cancelled"

\* C20: every crawl starts with its contractor's homepage as its only
\* page and with the three fields pending, whatever crawlers were created
\* or run before it.
C20_CrawlStartsFresh ==
    \A t \in DOMAIN routines :
        routines[t].pc # "created" =>
            /\ routines[t].startPages = {HomeOf(t)}
            /\ routines[t].startFields = DefaultFields

\* C21: while the crawls of a batch run, a step of one crawl leaves the
\* frontier and the pending fields of every other crawl as they were.
C21_CrawlSetsPrivate ==
    [][ \A t, u \in DOMAIN routines :
          (/\ handler' = handler
           /\ t # u
           /\ routines'[t].pc # routines[t].pc
           /\ routines[u].pc \in {"sitemap", "fetch", "scrape"})
          =>  /\ PagesOf(u)' = PagesOf(u)
              /\ FieldsOf(u)' = FieldsOf(u) ]_vars

\* C22: the crawls a handle_results call launches are for titles that were
\* not known before the call (stored by an earlier call or loaded from the
\* file) and are pairwise different; over the run no title is crawled twice.
C22_OneCrawlPerTitle ==
    [][ (handler.pc = "idle" /\ handler'.pc = "gather")
        =>  LET all == handler'.crawled
                old == Len(handler.crawled)
            IN  /\ \A i \in old + 1..Len(all) : all[i] \notin Keys(contractors)
                /\ \A i, j \in 1..Len(all) : i # j => all[i] # all[j] ]_vars

\* a call on a store that was loaded with Acme: of its two contractors one
\* was skipped and only Bolt is crawled
C22_Witness ==
    /\ handler.pc = "gather"
    /\ handler.calls = 1
    /\ handler.dups = 1
    /\ handler.crawled = << <<"Bolt", ", ", "Inc">> >>
    /\ Len(contractors) = 2

\* the pages of the site of the contractor of title t
OwnPages(t) == {<<t, u>> : u \in Urls}

\* C23: the frontier of a crawl holds its contractor's homepage and the
\* pages the site-map discovery added, at most three urls: at its start and
\* while it runs it holds nothing else.
C23_FrontierBounded ==
    \A t \in DOMAIN routines :
        /\ routines[t].pc # "created"
            => routines[t].startPages \subseteq OwnPages(t)
        /\ routines[t].pc \in {"sitemap", "fetch", "scrape"}
            => /\ PagesOf(t) \subseteq OwnPages(t)
               /\ Cardinality(PagesOf(t)) <= 3

\* C24: the url of a Contractor made from a search result has the scheme
\* and the host of the result's url, no path and no query.
C24_UrlCanonical ==
    search.pc = "extracted" =>
        /\ UrlParse(search.contractorUrl).path = <<>>
        /\ UrlParse(search.contractorUrl).query = <<>>
        /\ UrlParse(search.contractorUrl).scheme = UrlParse(search.url).scheme
        /\ UrlParse(search.contractorUrl).netloc = UrlParse(search.url).netloc

C26_NoFabrication ==
    [][ \A i \in 1..Len(contractors') :
          IF i > Len(contractors)
          THEN \A f \in Fields : contractors'[i][f] = PyNone
          ELSE \A f \in Fields :
                contractors'[i][f] # contractors[i][f] =>
                    LET t == contractors[i].title
                    IN  /\ t \in DOMAIN routines
                        /\ routines[t].pc = "scrape"
                        /\ routines[t].page \in OwnPages(t)
                        /\ f \in routines[t].launched
                        /\ \E x \in ScraperOutcomes :
                            /\ x[1] = f
                            /\ x[2] = routines[t].doc
                            /\ x[3].cb # <<>>
                            /\ contractors'[i][f] = x[3].cb[Len(x[3].cb)]
      ]_vars

\* a crawl of the shared-set crawler has ended with the phone of its
\* Contractor set from its homepage and the address still unset, next to
\* another Contractor of the batch
C26_Witness ==
    /\ crawlerModule = "parsers"
    /\ handler.pc = "gather"
    /\ \E i \in 1..Len(contractors) :
        LET t == contractors[i].title
        IN  /\ t \in DOMAIN routines
            /\ routines[t].pc = "done"
            /\ routines[t].startPages = {HomeOf(t)}
            /\ contractors[i].phone # PyNone
            /\ contractors[i].address = PyNone
    /\ Cardinality(DOMAIN routines) = 2

\* C27: add_service(s) on a Contractor leaves s exactly once in its
\* services and leaves the services of every other Contractor as they were.
C27_ServicesPerContractor ==
    [][ \A t \in Titles : \A s \in ServiceNames :
          svc'.last = [who |-> t, service |-> s] =>
              /\ CountIn(ServicesOf(t)', s) = 1
              /\ \A u \in Titles \ {t} : ServicesOf(u)' = ServicesOf(u)
      ]_vars

\* the place of a step in TextSnippetScraper.__call__
StepRank(k) ==
    CASE k = "none" -> 0
      [] k = "footer" -> 1
      [] k = "header" -> 2
      [] k = "chunk" -> 3
      [] k = "first" -> 4
      [] k = "last" -> 5
      [] OTHER -> 6

\* C28: the text-snippet extractor (the phone and email scrapers past their
\* link shortcut) is ordered and first-match-wins: a step of a call is taken
\* only while no value has been passed to the callback, and the section or
\* batch a step classifies comes after the one classified before it, in the
\* order footer / header, small-element batches, first chunk, last chunk.
C28_OrderedFirstMatchWins ==
    [][ \A f \in {"phone", "email"} :
          sc'[f] # sc[f] =>
              /\ sc[f].cb = <<>>
              /\ sc[f].ret = "pending"
              /\ sc'[f].calls > sc[f].calls =>
                    /\ StepRank(sc'[f].last.k) >= StepRank(sc[f].last.k)
                    /\ StepRank(sc'[f].last.k) = StepRank(sc[f].last.k)
                            => sc'[f].last.k = "chunk"
      ]_vars

\* the phone scraper found its value in the second batch of a document of
\* two hundred small elements, after the footer, the header and the first
\* batch gave nothing
C28_Witness ==
    /\ "phone" \in launched
    /\ content.footer /\ content.header
    /\ NumElems(content) = 2 * ChunkSize
    /\ sc["phone"].idx = 4
    /\ sc["phone"].last.k = "chunk"
    /\ sc["phone"].ret = "True"
    /\ Len(sc["phone"].cb) = 1

\* the elements of the batches _snippet_chunks yields for a document
RECURSIVE BatchedElems(_)
BatchedElems(chunks) ==
    IF chunks = <<>> THEN 0 ELSE Head(chunks).n + BatchedElems(Tail(chunks))

\* C29: every candidate element belongs to a batch: when a phone or email
\* scraper call is about to classify the first 5000 characters, the batches
\* of the small-element scan together held every candidate element of the
\* document.
C29_EveryElementBatched ==
    \A f \in {"phone", "email"} :
        (f \in launched /\ sc[f].ret = "pending"
            /\ StepKind(f, content, sc[f]) = "first")
        => BatchedElems(SnippetChunks(content)) = NumElems(content)

\* C30: when elements of the small-element scan yield values, the value
\* passed to the callback is that of the yielding element that comes first
\* in document order.
C30_FirstInDocumentOrder ==
    scan.pc = "found" =>
        LET yielding == {i \in 1..Len(scan.doc) : scan.doc[i].value # PyNone}
        IN  scan.value = scan.doc[Min(yielding)].value

C32_SetsFrozenDuringVisit ==
    [][ \A t \in DOMAIN routines :
          (routines[t].pc = "scrape" /\ t \in DOMAIN routines'
                /\ routines'[t].pc = "scrape")
          => /\ FieldsOf(t)' = FieldsOf(t)
             /\ PagesOf(t)' = PagesOf(t)
             /\ FieldsOf(t) = routines[t].launched
      ]_vars

\* C33: a page visit removes from the pending fields only fields whose own
\* scraper was run on the page and reported found: every field that leaves
\* the pending set when the gather of a crawl's page ends was among the
\* scrapers gathered, and its scraper has set the field on the crawl's
\* Contractor.
C33_RemovedAreFound ==
    [][ \A t \in DOMAIN routines :
          (routines[t].pc = "scrape" /\ t \in DOMAIN routines'
                /\ routines'[t].pc # "scrape")
          => \A f \in FieldsOf(t) \ FieldsOf(t)' :
                /\ f \in routines[t].launched
                /\ \E i \in 1..Len(contractors') :
                    /\ contractors'[i].title = t
                    /\ contractors'[i][f] # PyNone
      ]_vars

PassedFrom == {parse.passed[k].from : k \in 1..Len(parse.passed)}

\* C35: an ambiguous classifier output aborts only its own item: when
\* _parse_results has ended, every result of the batch that the classifier
\* found to be a contractor site has been extracted and handed on.
C35_AmbiguousAbortsOnlyItem ==
    parse.pc \in {"passed", "raised"} =>
        \A i \in parse.kept : parse.verdict[i] = "True" => i \in PassedFrom

\* C40: a search result whose url contains a blacklisted string is dropped
\* before classification: no classifier call is made for it and no
\* Contractor made from it is handed to the ResultsHandler.
C40_BlacklistedDropped ==
    \A i \in DOMAIN parse.results :
        Blacklisted(parse.results[i].url) =>
            /\ parse.verdict[i] = "none"
            /\ i \notin parse.kept
            /\ i \notin PassedFrom

\* a batch whose first result is a yelp.com page the chain would have
\* called a contractor, and whose second result was handed on
C40_Witness ==
    /\ parse.pc = "passed"
    /\ parse.results[1].url = <<"https", "://", "yelp.com", "/biz/acme">>
    /\ parse.results[1].answers.isContractor = <<"contractor">>
    /\ PassedFrom = {2}
    /\ parse.passed[1].url = <<"https", "://", "bolt.com">>

\* the sentinel with which the oracle of field f says that it found nothing
Sentinel(f) == IF f = "address" THEN "no address" ELSE FailureText(f)

\* C36: a reply that carries the field's sentinel, in any letter case, alone
\* or inside a longer reply, is never passed to the setter: no value passed
\* to a callback, and no field of the Contractor, holds the sentinel.
C36_NoSentinelStored ==
    \A f \in Fields :
        /\ \A i \in 1..Len(sc[f].cb) : ~Contains(Lower(sc[f].cb[i]), Sentinel(f))
        /\ contractor[f] # PyNone => ~Contains(Lower(contractor[f]), Sentinel(f))

\* C37: the value passed to set_address holds no newline.
C37_NoNewlineInAddress ==
    /\ \A i \in 1..Len(sc["address"].cb) : ~Contains(sc["address"].cb[i], "\n")
    /\ contractor["address"] # PyNone => ~Contains(contractor["address"], "\n")

\* the titles of the records of the file
StoredTitles(st) == {ReadRow(st.rows[i]).title : i \in 2..Len(st.rows)}

\* C38: records are never deleted or replaced within a run.  In every step
\* the records the handler holds stay in place with their title,
\* description and url (new ones are added behind them), and every title of
\* the file is still in the file with the same description and url.
C38_RecordsKept ==
    [][ /\ Len(contractors') >= Len(contractors)
        /\ \A i \in 1..Len(contractors) :
            /\ contractors'[i].title = contractors[i].title
            /\ contractors'[i].description = contractors[i].description
            /\ contractors'[i].url = contractors[i].url
        /\ store.exists =>
            /\ store'.exists
            /\ \A i \in 2..Len(store.rows) :
                \E j \in 2..Len(store'.rows) :
                    /\ ReadRow(store'.rows[j]).title = ReadRow(store.rows[i]).title
                    /\ ReadRow(store'.rows[j]).description
                            = ReadRow(store.rows[i]).description
                    /\ ReadRow(store'.rows[j]).url = ReadRow(store.rows[i]).url
      ]_vars

\* the file of an earlier run held Acme; a batch brought Acme again, with
\* another description, and a new contractor; the file was written again
C38_Witness ==
    /\ handler.pc = "idle"
    /\ handler.calls = 1
    /\ handler.dups = 1
    /\ Len(contractors) = 2
    /\ contractors[1].title = <<"Acme">>
    /\ contractors[1].description = <<"Roofing", ", ", "siding">>
    /\ StoredTitles(store) = Titles
    /\ ReadRow(store.rows[2]).description = <<"Roofing", ", ", "siding">>

\* C39: no scraper changes the fetched body.  Whatever scrapers have started
\* and in whatever order, the body is as fetch_site returned it, every
\* stripped document is another object, and the phone and email scrapers
\* that have started found their link exactly when the fetched body has one.
C39_FetchedBodyIntact ==
    visit.pc = "gather" =>
        /\ visit.heap[Fetched] = visit.fetched
        /\ \A f \in Fields : visit.lookup[f] = "no link" => visit.work[f] # Fetched
        /\ \A f \in {"phone", "email"} :
            /\ visit.lookup[f] = "link" => ShortcutAnchors(f, visit.fetched) # {}
            /\ visit.lookup[f] = "no link" => ShortcutAnchors(f, visit.fetched) = {}

\* the address and the email scraper have made their stripped copies of a
\* body with a tel: link, and the phone scraper, started last, found the link
C39_Witness ==
    /\ visit.pc = "gather"
    /\ visit.lookup = [address |-> "no link", email |-> "no link", phone |-> "link"]
    /\ Len(visit.heap) = 3
    /\ TelAnchors(visit.heap[Fetched]) # {}
    /\ \A r \in 2..3 : \A i \in 1..Len(visit.heap[r].anchors) :
            ~visit.heap[r].anchors[i].hasHref

====
